---- MODULE Spec2Model ----
(***************************************************************************)
(* Model of salt/spm/pkgfiles/local.py: the SPM package-file backend that  *)
(* maps archive member paths to filesystem locations and installs them,    *)
(* and of the repository package listing of salt/modules/spm.py.           *)
(*                                                                         *)
(* Python strings are sequences of one-character strings, so that          *)
(* startswith / endswith / replace / re.sub are computed, not assumed.     *)
(* An optional value is a sequence of length at most one: None is <<>>,    *)
(* a present value v is <<v>>.                                             *)
(***************************************************************************)
EXTENDS Integers, Sequences, FiniteSets, TLC

VARIABLES opts, dirs, files, formula_def, members, extracted, call,
          fcontent, hashobjs, history, repo_metadata, pkgdb, repos

vars == <<opts, dirs, files, formula_def, members, extracted, call,
          fcontent, hashobjs, history, repo_metadata, pkgdb, repos>>

\* the state of the file operations and of the repository listing
file_vars == <<fcontent, hashobjs, history>>

(***************************************************************************)
(* Bounds of the model.                                                    *)
(***************************************************************************)
\* fragments concatenated after the head of a path handed to map_path
MaxBody == 3
\* fragments concatenated after the prefix of a payload member's name
MaxMemberFrags == 2
\* calls of the file operations made in one run
MaxCalls == 2

(***************************************************************************)
(* Python values.                                                          *)
(***************************************************************************)
None == <<>>
Some(v) == <<v>>

\* Python truthiness of an optional string: None and "" are falsy
Truthy(o) == o # None /\ o[1] # <<>>

\* str(): a string is itself, None is "None"
Str(o) == IF o = None THEN "None" ELSE o[1]

\* dict.get(key, default)
Get(d, k, default) == IF k \in DOMAIN d THEN d[k] ELSE default

\* str.startswith
StartsWith(s, p) == Len(p) <= Len(s) /\ SubSeq(s, 1, Len(p)) = p

\* str.endswith
EndsWith(s, p) == Len(p) <= Len(s) /\ SubSeq(s, Len(s) - Len(p) + 1, Len(s)) = p

\* str.find, 1-based, 0 when absent
Find(s, p) ==
  LET hits == {i \in 1..(Len(s) - Len(p) + 1) : SubSeq(s, i, i + Len(p) - 1) = p}
  IN  IF hits = {} THEN 0 ELSE CHOOSE i \in hits : \A j \in hits : i <= j

\* str.replace(old, new, 1)
Replace1(s, old, new) ==
  LET i == Find(s, old)
  IN  IF i = 0 THEN s
      ELSE SubSeq(s, 1, i - 1) \o new \o SubSeq(s, i + Len(old), Len(s))

RECURSIVE LStripSlash(_)
LStripSlash(s) == IF s # <<>> /\ Head(s) = "/" THEN LStripSlash(Tail(s)) ELSE s

(***************************************************************************)
(* String literals of the program.                                         *)
(***************************************************************************)
SLASH == <<"/">>
USCORE == <<"_">>
S_FORMULA == <<"F","O","R","M","U","L","A">>
S_PILLAR == <<"_","p","i","l","l","a","r">>
S_PILLAR_SLASH == S_PILLAR \o SLASH
S_PILLAR_EXAMPLE == <<"p","i","l","l","a","r",".","e","x","a","m","p","l","e">>
S_SLS_ORIG == <<".","s","l","s",".","o","r","i","g">>
S_CONF == <<"-","c","o","n","f">>
S_REACTOR == <<"-","r","e","a","c","t","o","r">>

\* salt.syspaths.CONFIG_DIR and salt.syspaths.CACHE_DIR
CONFIG_DIR == <<"/","e","t","c","/","s","a","l","t">>
CACHE_DIR == <<"/","v","a","r","/","c","a","c","h","e","/","s","a","l","t">>

\* the node roles for which module files are installed
NODE_TYPES == {"master", "minion"}

(***************************************************************************)
(* Input values.                                                           *)
(***************************************************************************)
S_APACHE == <<"a","p","a","c","h","e">>
S_XCONF == <<"x">> \o S_CONF
S_XREACTOR == <<"x">> \o S_REACTOR
S_TOP == <<"t","o","p">>
S_PD == <<"p","d","/">>
S_README == <<"R","E","A","D","M","E">>
S_DOCS == <<"d","o","c","s","/">>

FormulaNames == {S_APACHE, S_XCONF, S_XREACTOR}

\* formula descriptors: a name, and optionally a top_level_dir
Formulas ==
  {[k \in {"name"} |-> n] : n \in FormulaNames}
  \cup {[k \in {"name", "top_level_dir"} |-> IF k = "name" THEN n ELSE S_TOP] :
          n \in FormulaNames}

\* spm_node_type: unset, the two valid roles, one invalid role
NodeTypeValues == {None, Some("master"), Some("minion"), Some("syndic")}

DIR_F == <<"/","f">>
DIR_P == <<"/","p">>
DIR_R == <<"/","r">>
DIR_M == <<"/","m">>
DIR_TMP == <<"/","t","m","p","/","t","e","s","t">>

ConnKeys == {"formula_path", "pillar_path", "reactor_path", "spm_module_path"}

\* the context of test_install_file: formula_path only
TestConn == [k \in {"formula_path"} |-> DIR_TMP]

Fragments == {SLASH, USCORE, S_PILLAR_SLASH, S_FORMULA, S_PILLAR_EXAMPLE, S_README, S_DOCS}

RECURSIVE BodiesUpTo(_)
BodiesUpTo(n) ==
  IF n = 0 THEN {<<>>}
  ELSE LET prev == BodiesUpTo(n - 1)
       IN  prev \cup {b \o f : b \in prev, f \in Fragments}

PathBodies == BodiesUpTo(MaxBody)
MemberBodies == BodiesUpTo(MaxMemberFrags)

(***************************************************************************)
(* Results of a call: a return value or a raised exception.                *)
(***************************************************************************)
Pending == [kind |-> "pending"]
Raise(exc, key) == [kind |-> "raise", exc |-> exc, key |-> key]
\* map_path returns the pair (base_path, file_path)
ReturnPair(base, file) == [kind |-> "return", base |-> base, file |-> file]
\* install_file returns False (ok = FALSE) or the base directory
ReturnFalse == [kind |-> "return", ok |-> FALSE, base |-> None]
ReturnBase(base) == [kind |-> "return", ok |-> TRUE, base |-> Some(base)]

(***************************************************************************)
(* init(): creates the missing configured directories, returns the context *)
(***************************************************************************)
init_conn(o) == [k \in ConnKeys |-> o[k]]

\* variant: the module directory is not created
init_dirs_no_module(o, d) ==
  d \cup {o[k] : k \in {"formula_path", "pillar_path", "reactor_path"}}

init_dirs(o, d) == d \cup {o[k] : k \in ConnKeys}

(***************************************************************************)
(* map_path                                                                *)
(***************************************************************************)
\* variant: the prefix is always built from the formula's name
parent_dir_of_name_only(parent_dir, formula) ==
  IF Truthy(parent_dir) THEN parent_dir[1]
  ELSE Get(formula, "name", <<>>) \o SLASH

\* _parent_dir = parent_dir or "{}/".format(top_level_dir-or-name)
parent_dir_of(parent_dir, formula) ==
  IF Truthy(parent_dir) THEN parent_dir[1]
  ELSE Get(formula, "top_level_dir", Get(formula, "name", <<>>)) \o SLASH

\* trimmed_path = path.replace(_parent_dir, "", 1)
trim_path(path, _parent_dir) == Replace1(path, _parent_dir, <<>>)

\* variant: the pattern "^_pillar/" without the repetition
re_sub_pillar_once(trimmed) ==
  IF StartsWith(trimmed, S_PILLAR_SLASH)
  THEN SubSeq(trimmed, Len(S_PILLAR_SLASH) + 1, Len(trimmed))
  ELSE trimmed

\* re.sub(r"^_pillar/+", "", trimmed_path)
re_sub_pillar(trimmed) ==
  IF StartsWith(trimmed, S_PILLAR_SLASH)
  THEN LStripSlash(SubSeq(trimmed, Len(S_PILLAR) + 1, Len(trimmed)))
  ELSE trimmed

\* conn[key], raising KeyError when the key is missing
pillar_rule(trimmed, conn) ==
  IF "pillar_path" \notin DOMAIN conn THEN Raise("KeyError", "pillar_path")
  ELSE ReturnPair(Some(conn["pillar_path"]), Some(re_sub_pillar(trimmed)))

\* variant: the node role is not consulted
module_rule_any_role(trimmed, conn, o) ==
  IF "spm_module_path" \notin DOMAIN conn
  THEN Raise("KeyError", "spm_module_path")
  ELSE ReturnPair(Some(conn["spm_module_path"]), Some(Tail(trimmed)))

\* variant: an invalid node role clears base_path only
module_rule_keeps_file(trimmed, conn, o) ==
  LET file_path == Tail(trimmed)
      node_type == Str(o["spm_node_type"])
  IN  IF node_type \notin NODE_TYPES THEN ReturnPair(None, Some(file_path))
      ELSE IF "spm_module_path" \notin DOMAIN conn
           THEN Raise("KeyError", "spm_module_path")
           ELSE ReturnPair(Some(conn["spm_module_path"]), Some(file_path))

module_rule(trimmed, conn, o) ==
  LET file_path == Tail(trimmed)
      node_type == Str(o["spm_node_type"])
  IN  IF node_type \notin NODE_TYPES THEN ReturnPair(None, None)
      ELSE IF "spm_module_path" \notin DOMAIN conn
           THEN Raise("KeyError", "spm_module_path")
           ELSE ReturnPair(Some(conn["spm_module_path"]), Some(file_path))

\* variant: the pillar example is named after the top-level directory
pillar_example_rule_top_level(formula, conn) ==
  IF "pillar_path" \notin DOMAIN conn THEN Raise("KeyError", "pillar_path")
  ELSE ReturnPair(Some(conn["pillar_path"]),
                  Some(Get(formula, "top_level_dir", Get(formula, "name", <<>>))
                       \o S_SLS_ORIG))

pillar_example_rule(formula, conn) ==
  IF "pillar_path" \notin DOMAIN conn THEN Raise("KeyError", "pillar_path")
  ELSE IF "name" \notin DOMAIN formula THEN Raise("KeyError", "name")
  ELSE ReturnPair(Some(conn["pillar_path"]), Some(formula["name"] \o S_SLS_ORIG))

\* variant: the "-conf" rule is missing
name_rule_no_conf(trimmed, formula, conn) ==
  IF "name" \notin DOMAIN formula THEN Raise("KeyError", "name")
  ELSE IF EndsWith(formula["name"], S_REACTOR)
       THEN IF "reactor_path" \notin DOMAIN conn
            THEN Raise("KeyError", "reactor_path")
            ELSE ReturnPair(Some(conn["reactor_path"]), Some(trimmed))
  ELSE ReturnPair(Some(conn["formula_path"]), Some(trimmed))

name_rule(trimmed, formula, conn) ==
  IF "name" \notin DOMAIN formula THEN Raise("KeyError", "name")
  ELSE IF EndsWith(formula["name"], S_CONF)
       THEN ReturnPair(Some(CONFIG_DIR), Some(trimmed))
  ELSE IF EndsWith(formula["name"], S_REACTOR)
       THEN IF "reactor_path" \notin DOMAIN conn
            THEN Raise("KeyError", "reactor_path")
            ELSE ReturnPair(Some(conn["reactor_path"]), Some(trimmed))
  ELSE ReturnPair(Some(conn["formula_path"]), Some(trimmed))

\* variant: the name-suffix rules are tried before the path-shape rules
map_rules_name_first(trimmed_path, formula, conn, o) ==
  IF trimmed_path = S_FORMULA THEN ReturnPair(None, None)
  ELSE IF EndsWith(formula["name"], S_CONF) \/ EndsWith(formula["name"], S_REACTOR)
       THEN name_rule(trimmed_path, formula, conn)
  ELSE IF StartsWith(trimmed_path, S_PILLAR_SLASH)
       THEN pillar_rule(trimmed_path, conn)
  ELSE IF StartsWith(trimmed_path, USCORE)
       THEN module_rule(trimmed_path, conn, o)
  ELSE IF trimmed_path = S_PILLAR_EXAMPLE
       THEN pillar_example_rule(formula, conn)
  ELSE name_rule(trimmed_path, formula, conn)

\* variant: the manifest is not singled out
map_rules_no_manifest(trimmed_path, formula, conn, o) ==
  IF StartsWith(trimmed_path, S_PILLAR_SLASH)
  THEN pillar_rule(trimmed_path, conn)
  ELSE IF StartsWith(trimmed_path, USCORE)
       THEN module_rule(trimmed_path, conn, o)
  ELSE IF trimmed_path = S_PILLAR_EXAMPLE
       THEN pillar_example_rule(formula, conn)
  ELSE name_rule(trimmed_path, formula, conn)

\* the ordered rules applied to the trimmed path, first match wins
map_rules(trimmed_path, formula, conn, o) ==
  IF trimmed_path = S_FORMULA THEN ReturnPair(None, None)
  ELSE IF StartsWith(trimmed_path, S_PILLAR_SLASH)
       THEN pillar_rule(trimmed_path, conn)
  ELSE IF StartsWith(trimmed_path, USCORE)
       THEN module_rule(trimmed_path, conn, o)
  ELSE IF trimmed_path = S_PILLAR_EXAMPLE
       THEN pillar_example_rule(formula, conn)
  ELSE name_rule(trimmed_path, formula, conn)

\* map_path with the connection context already resolved (conn is a dict)
map_path(path, formula, parent_dir, conn, o) ==
  LET _parent_dir == parent_dir_of(parent_dir, formula)
  IN  IF ~StartsWith(path, _parent_dir) THEN ReturnPair(None, None)
      ELSE IF "formula_path" \notin DOMAIN conn
           THEN Raise("KeyError", "formula_path")
      ELSE map_rules(trim_path(path, _parent_dir), formula, conn, o)

\* "if conn is None: conn = init()"
conn_or_init(conn, o) == IF conn = None THEN init_conn(o) ELSE conn[1]

dirs_after_conn(conn, o, d) == IF conn = None THEN init_dirs(o, d) ELSE d

(***************************************************************************)
(* Configuration: __opts__                                                 *)
(***************************************************************************)
OptsFor(node) ==
  [formula_path |-> DIR_F, pillar_path |-> DIR_P, reactor_path |-> DIR_R,
   spm_module_path |-> DIR_M, spm_node_type |-> node]

\* connection contexts handed to a call: omitted, the one init() returns,
\* and the partial one of test_install_file
ConnValues(o) == {None, Some(init_conn(o)), Some(TestConn)}

\* parent_dir: omitted, empty (falsy), or a directory prefix
ParentDirValues == {None, Some(<<>>), Some(S_PD)}

(***************************************************************************)
(* Specification of map_path as a function of its inputs: Init draws the   *)
(* arguments, the action applies map_path to them.                         *)
(***************************************************************************)
PathHeads(formula) == {<<>>, formula["name"] \o SLASH, S_TOP \o SLASH, S_PD}

InitMapPath ==
  /\ \E node \in NodeTypeValues : opts = OptsFor(node)
  /\ dirs = {}
  /\ files = {}
  /\ formula_def = [k \in {"name"} |-> S_APACHE]
  /\ members = <<>>
  /\ extracted = <<>>
  /\ fcontent = <<>>
  /\ hashobjs = <<>>
  /\ history = <<>>
  /\ repo_metadata = <<>>
  /\ pkgdb = <<>>
  /\ repos = <<>>
  /\ \E formula \in Formulas, parent_dir \in ParentDirValues,
        conn \in ConnValues(opts) :
       \E head \in PathHeads(formula), body \in PathBodies :
         call = [op |-> "map_path", path |-> head \o body, formula |-> formula,
                 parent_dir |-> parent_dir, conn |-> conn, ret |-> Pending]

MapPath ==
  /\ call.op = "map_path"
  /\ call.ret = Pending
  /\ call' = [call EXCEPT !.ret =
                map_path(call.path, call.formula, call.parent_dir,
                         conn_or_init(call.conn, opts), opts)]
  /\ dirs' = dirs_after_conn(call.conn, opts, dirs)
  /\ UNCHANGED <<opts, files, formula_def, members, extracted>>
  /\ UNCHANGED <<file_vars, repo_metadata, pkgdb, repos>>

NextMapPath == MapPath

SpecMapPath == InitMapPath /\ [][NextMapPath]_vars

(***************************************************************************)
(* install_file                                                            *)
(***************************************************************************)
\* the member ms[m] with its name replaced
Renamed(ms, m, name) == [ms EXCEPT ![m].name = name]

\* what a call of install_file leaves behind: its result, the members, the
\* calls of formula_tar.extract (member, its name at the call, target
\* directory), the pair map_path returned, and whether init() ran
InstallOutcome(ret, ms, extract, mapped, ran_init) ==
  [ret |-> ret, members |-> ms, extract |-> extract, mapped |-> mapped,
   ran_init |-> ran_init]

\* variant: the member is extracted before it is renamed
install_file_extract_first(package, m, ms, formula, conn, o) ==
  IF ms[m].name = package
  THEN InstallOutcome(ReturnFalse, ms, <<>>, Pending, FALSE)
  ELSE LET mapped == map_path(ms[m].name, formula, None, conn_or_init(conn, o), o)
       IN  IF mapped.kind = "raise"
           THEN InstallOutcome(mapped, ms, <<>>, mapped, conn = None)
           ELSE IF ~Truthy(mapped.base) \/ ~Truthy(mapped.file)
           THEN InstallOutcome(ReturnFalse, ms, <<>>, mapped, conn = None)
           ELSE InstallOutcome(
                  ReturnBase(mapped.base[1]),
                  Renamed(ms, m, mapped.file[1]),
                  <<[member |-> m, name |-> ms[m].name, path |-> mapped.base[1]]>>,
                  mapped, conn = None)

\* variant: the connection context is resolved on entry, as in remove_file
install_file_init_first(package, m, ms, formula, conn, o) ==
  IF ms[m].name = package
  THEN InstallOutcome(ReturnFalse, ms, <<>>, Pending, conn = None)
  ELSE LET mapped == map_path(ms[m].name, formula, None, conn_or_init(conn, o), o)
       IN  IF mapped.kind = "raise"
           THEN InstallOutcome(mapped, ms, <<>>, mapped, conn = None)
           ELSE IF ~Truthy(mapped.base) \/ ~Truthy(mapped.file)
           THEN InstallOutcome(ReturnFalse, ms, <<>>, mapped, conn = None)
           ELSE InstallOutcome(
                  ReturnBase(mapped.base[1]),
                  Renamed(ms, m, mapped.file[1]),
                  <<[member |-> m, name |-> mapped.file[1], path |-> mapped.base[1]]>>,
                  mapped, conn = None)

\* variant: the member is renamed before the mapping is tested
install_file_rename_first(package, m, ms, formula, conn, o) ==
  IF ms[m].name = package
  THEN InstallOutcome(ReturnFalse, ms, <<>>, Pending, FALSE)
  ELSE LET mapped == map_path(ms[m].name, formula, None, conn_or_init(conn, o), o)
       IN  IF mapped.kind = "raise"
           THEN InstallOutcome(mapped, ms, <<>>, mapped, conn = None)
           ELSE IF ~Truthy(mapped.base) \/ ~Truthy(mapped.file)
           THEN InstallOutcome(ReturnFalse,
                               Renamed(ms, m, IF mapped.file = None THEN <<>>
                                              ELSE mapped.file[1]),
                               <<>>, mapped, conn = None)
           ELSE InstallOutcome(
                  ReturnBase(mapped.base[1]),
                  Renamed(ms, m, mapped.file[1]),
                  <<[member |-> m, name |-> mapped.file[1], path |-> mapped.base[1]]>>,
                  mapped, conn = None)

install_file(package, m, ms, formula, conn, o) ==
  IF ms[m].name = package
  THEN InstallOutcome(ReturnFalse, ms, <<>>, Pending, FALSE)
  ELSE LET mapped == map_path(ms[m].name, formula, None, conn_or_init(conn, o), o)
       IN  IF mapped.kind = "raise"
           THEN InstallOutcome(mapped, ms, <<>>, mapped, conn = None)
           ELSE IF ~Truthy(mapped.base) \/ ~Truthy(mapped.file)
           THEN InstallOutcome(ReturnFalse, ms, <<>>, mapped, conn = None)
           ELSE InstallOutcome(
                  ReturnBase(mapped.base[1]),
                  Renamed(ms, m, mapped.file[1]),
                  <<[member |-> m, name |-> mapped.file[1], path |-> mapped.base[1]]>>,
                  mapped, conn = None)

(***************************************************************************)
(* Specification of the installer: Init draws the configuration, the       *)
(* formula and its archive (the top-level directory entry, the manifest,   *)
(* the payload members); install_file is called on its members.            *)
(***************************************************************************)
TopLevelDir(formula) == Get(formula, "top_level_dir", formula["name"])

Member(name, isdir) == [name |-> name, isdir |-> isdir]

PayloadNames(formula) == {TopLevelDir(formula) \o SLASH \o b : b \in MemberBodies}

\* an archive: the top-level directory entry, the manifest, a payload member
Archives(formula) ==
  {<<Member(TopLevelDir(formula), TRUE),
     Member(TopLevelDir(formula) \o SLASH \o S_FORMULA, FALSE),
     Member(n, FALSE)>> : n \in PayloadNames(formula)}

Init ==
  /\ \E node \in NodeTypeValues : opts = OptsFor(node)
  /\ dirs = {}
  /\ files = {}
  /\ formula_def \in Formulas
  /\ members \in Archives(formula_def)
  /\ extracted = <<>>
  /\ fcontent = <<>>
  /\ hashobjs = <<>>
  /\ history = <<>>
  /\ repo_metadata = <<>>
  /\ pkgdb = <<>>
  /\ repos = <<>>
  /\ call = [op |-> "none"]

\* the files and directories formula_tar.extract leaves on the filesystem
ExtractedFiles(extract) == {<<extract[i].path, extract[i].name>> : i \in DOMAIN extract}
ExtractedDirs(extract) == {extract[i].path : i \in DOMAIN extract}

InstallFile(m, conn) ==
  \E out \in {install_file(formula_def["name"], m, members, formula_def, conn, opts)} :
    /\ call' = [op |-> "install_file", package |-> formula_def["name"],
                member |-> m, name |-> members[m].name, conn |-> conn,
                mapped |-> out.mapped, ret |-> out.ret]
    /\ members' = out.members
    /\ extracted' = out.extract
    /\ files' = files \cup ExtractedFiles(out.extract)
    /\ dirs' = (IF out.ran_init THEN init_dirs(opts, dirs) ELSE dirs)
                 \cup ExtractedDirs(out.extract)
    /\ UNCHANGED <<opts, formula_def, file_vars, repo_metadata, pkgdb, repos>>

Next == \E m \in DOMAIN members, conn \in ConnValues(opts) : InstallFile(m, conn)

Spec == Init /\ [][Next]_vars

(***************************************************************************)
(* The filesystem: dirs is the set of existing directories, fcontent maps  *)
(* the path of every existing regular file to its content.                 *)
(***************************************************************************)
\* a path with repeated slashes collapsed, as the kernel resolves it
RECURSIVE CollapseSlashes(_)
CollapseSlashes(p) ==
  IF Len(p) < 2 THEN p
  ELSE IF p[1] = "/" /\ p[2] = "/" THEN CollapseSlashes(Tail(p))
  ELSE <<p[1]>> \o CollapseSlashes(Tail(p))

\* a resolved path without its trailing slash
StripTrailingSlash(p) ==
  IF Len(p) > 1 /\ p[Len(p)] = "/" THEN SubSeq(p, 1, Len(p) - 1) ELSE p

\* os.path.isdir
path_isdir(p, d) == StripTrailingSlash(CollapseSlashes(p)) \in d

\* os.path.exists: a regular file is found under its exact name only, a
\* directory also with a trailing slash
path_exists(p, d, fc) == CollapseSlashes(p) \in DOMAIN fc \/ path_isdir(p, d)

\* os.path.sep.join((base_path, file_path))
sep_join(base, file) == base \o SLASH \o file

(***************************************************************************)
(* check_existing                                                          *)
(***************************************************************************)
ReturnList(l) == [kind |-> "return", value |-> l]

ScanOutcome(ret, d) == [ret |-> ret, dirs |-> d]

\* variant: a conflict is reported only when force is not set
scan_member_unless_force(mapped, existing_files, o, d, fc) ==
  IF mapped.kind = "raise" THEN ScanOutcome(mapped, d)
  ELSE IF ~Truthy(mapped.base) \/ ~Truthy(mapped.file)
  THEN ScanOutcome(ReturnList(existing_files), d)
  ELSE IF path_exists(sep_join(mapped.base[1], mapped.file[1]), d, fc) /\ ~o["force"]
  THEN ScanOutcome(ReturnList(Append(existing_files,
                                     sep_join(mapped.base[1], mapped.file[1]))), d)
  ELSE ScanOutcome(ReturnList(existing_files), d)

\* the body of the loop for a member that is not a directory: mapped is what
\* map_path returned, d the directories after map_path resolved the context
scan_member(mapped, existing_files, o, d, fc) ==
  IF mapped.kind = "raise" THEN ScanOutcome(mapped, d)
  ELSE IF ~Truthy(mapped.base) \/ ~Truthy(mapped.file)
  THEN ScanOutcome(ReturnList(existing_files), d)
  ELSE IF path_exists(sep_join(mapped.base[1], mapped.file[1]), d, fc)
  THEN ScanOutcome(ReturnList(Append(existing_files,
                                     sep_join(mapped.base[1], mapped.file[1]))), d)
  ELSE ScanOutcome(ReturnList(existing_files), d)

\* the loop of check_existing from member i on; so_far holds existing_files
\* and the directories, or the exception that ended the loop
RECURSIVE check_existing_from(_, _, _, _, _, _, _)
check_existing_from(i, so_far, ms, formula, conn, o, fc) ==
  IF i > Len(ms) \/ so_far.ret.kind = "raise" THEN so_far
  ELSE IF ms[i].isdir
       THEN check_existing_from(i + 1, so_far, ms, formula, conn, o, fc)
  ELSE check_existing_from(
         i + 1,
         scan_member(map_path(ms[i].name, formula, None, conn_or_init(conn, o), o),
                     so_far.ret.value, o, dirs_after_conn(conn, o, so_far.dirs), fc),
         ms, formula, conn, o, fc)

check_existing(ms, formula, conn, o, d, fc) ==
  check_existing_from(1, ScanOutcome(ReturnList(<<>>), d), ms, formula, conn, o, fc)

(***************************************************************************)
(* Specification of the pre-install scan: Init draws the configuration     *)
(* (node role, force), the formula, its archive and the files and          *)
(* directories that exist; check_existing is called on the archive.        *)
(***************************************************************************)
OptsWithForce(node, force) ==
  [formula_path |-> DIR_F, pillar_path |-> DIR_P, reactor_path |-> DIR_R,
   spm_module_path |-> DIR_M, spm_node_type |-> node, force |-> force]

ConfiguredDirs == {DIR_F, DIR_P, DIR_R, DIR_M}

S_TEXT == <<"t","e","x","t">>

\* the files that may exist before the scan: a README in some directories
ScanFilePaths == {sep_join(b, S_README) : b \in {DIR_F, DIR_P, DIR_M, CONFIG_DIR}}

\* payload names of the scan, one for each kind of member path: the bare
\* prefix, a plain file, a module file, a pillar file, the pillar example, a
\* file in a subdirectory, a doubled slash, and a path outside the prefix
ScanBodies ==
  {<<>>, S_README, USCORE \o S_README, S_PILLAR_SLASH \o S_README,
   S_PILLAR_EXAMPLE, S_DOCS \o S_README, SLASH}

ScanPayloadNames(formula) ==
  {TopLevelDir(formula) \o SLASH \o b : b \in ScanBodies} \cup {S_README}

\* an archive: the top-level directory entry, the manifest, a payload member
\* that may be a directory, and the README
ScanArchives(formula) ==
  {<<Member(TopLevelDir(formula), TRUE),
     Member(TopLevelDir(formula) \o SLASH \o S_FORMULA, FALSE),
     Member(n, isdir),
     Member(TopLevelDir(formula) \o SLASH \o S_README, FALSE)>> :
     n \in ScanPayloadNames(formula), isdir \in BOOLEAN}

InitScan ==
  /\ \E node \in NodeTypeValues, force \in BOOLEAN : opts = OptsWithForce(node, force)
  /\ dirs \in {{}, ConfiguredDirs \cup {CONFIG_DIR}}
  /\ \E present \in SUBSET ScanFilePaths : fcontent = [p \in present |-> S_TEXT]
  /\ files = {}
  /\ formula_def \in Formulas
  /\ members \in ScanArchives(formula_def)
  /\ extracted = <<>>
  /\ hashobjs = <<>>
  /\ history = <<>>
  /\ repo_metadata = <<>>
  /\ pkgdb = <<>>
  /\ repos = <<>>
  /\ call = [op |-> "none"]

CheckExisting(conn) ==
  /\ call.op = "none"
  /\ \E out \in {check_existing(members, formula_def, conn, opts, dirs, fcontent)} :
       /\ call' = [op |-> "check_existing", conn |-> conn, dirs0 |-> dirs,
                   fcontent0 |-> fcontent, ret |-> out.ret]
       /\ dirs' = out.dirs
       /\ UNCHANGED <<opts, files, formula_def, members, extracted, file_vars,
                      repo_metadata, pkgdb, repos>>

NextScan == \E conn \in ConnValues(opts) : CheckExisting(conn)

SpecScan == InitScan /\ [][NextScan]_vars

(***************************************************************************)
(* remove_file, hash_file and init on the filesystem.                      *)
(*                                                                         *)
(* A fault is what the operating system or the accumulator does wrong in   *)
(* the call: None, or "EACCES" (the open or remove is refused), "EIO" (the *)
(* read fails), "update" (hashobj.update raises IOError(0, "exc")).        *)
(***************************************************************************)
ReturnNone == [kind |-> "return", value |-> None]
ReturnStr(str) == [kind |-> "return", value |-> str]

\* the result of an os primitive: done, or the errno of the OSError
OsOk == "ok"

\* os.remove(path)
os_remove(path, d, fc, fault) ==
  IF fault = Some("EACCES") THEN "EACCES"
  ELSE IF path \in DOMAIN fc THEN OsOk
  ELSE IF path_isdir(path, d) THEN "EISDIR"
  ELSE "ENOENT"

\* the files left when path is removed
without_file(fc, path) == [q \in DOMAIN fc \ {path} |-> fc[q]]

FileOutcome(ret, d, fc, hs, oscalls) ==
  [ret |-> ret, dirs |-> d, fcontent |-> fc, hashobjs |-> hs, oscalls |-> oscalls]

\* variant: every OSError of os.remove is swallowed
remove_file_swallow_all(path, conn, o, d, fc, hs, fault) ==
  IF os_remove(path, dirs_after_conn(conn, o, d), fc, fault) = OsOk
  THEN FileOutcome(ReturnNone, dirs_after_conn(conn, o, d), without_file(fc, path), hs, 1)
  ELSE FileOutcome(ReturnNone, dirs_after_conn(conn, o, d), fc, hs, 1)

\* variant: a missing file is an error as well
remove_file_strict(path, conn, o, d, fc, hs, fault) ==
  IF os_remove(path, dirs_after_conn(conn, o, d), fc, fault) = OsOk
  THEN FileOutcome(ReturnNone, dirs_after_conn(conn, o, d), without_file(fc, path), hs, 1)
  ELSE FileOutcome(Raise("OSError", os_remove(path, dirs_after_conn(conn, o, d), fc, fault)),
                   dirs_after_conn(conn, o, d), fc, hs, 1)

remove_file(path, conn, o, d, fc, hs, fault) ==
  IF os_remove(path, dirs_after_conn(conn, o, d), fc, fault) = OsOk
  THEN FileOutcome(ReturnNone, dirs_after_conn(conn, o, d), without_file(fc, path), hs, 1)
  ELSE IF os_remove(path, dirs_after_conn(conn, o, d), fc, fault) # "ENOENT"
  THEN FileOutcome(Raise("OSError", os_remove(path, dirs_after_conn(conn, o, d), fc, fault)),
                   dirs_after_conn(conn, o, d), fc, hs, 1)
  ELSE FileOutcome(ReturnNone, dirs_after_conn(conn, o, d), fc, hs, 1)

\* what opening and reading the file and feeding the accumulator ends in
os_read(path, fc, fault) ==
  IF fault = Some("EACCES") THEN "EACCES"
  ELSE IF path \notin DOMAIN fc THEN "ENOENT"
  ELSE IF fault = Some("EIO") THEN "EIO"
  ELSE IF fault = Some("update") THEN "0"
  ELSE OsOk

\* hashobj.update(data) and hashobj.hexdigest(): the digest of everything fed
\* so far, a non-empty string that determines the algorithm and the data
fed_with(h, data) == [h EXCEPT !.fed = h.fed \o data]
hexdigest(h) == <<h.alg, ":">> \o h.fed

\* variant: the directory test is missing, the open of a directory fails
hash_file_no_isdir(path, k, d, fc, hs, fault) ==
  IF path_isdir(path, d) THEN FileOutcome(Raise("OSError", "EISDIR"), d, fc, hs, 1)
  ELSE IF os_read(path, fc, fault) = OsOk
  THEN FileOutcome(ReturnStr(hexdigest(fed_with(hs[k], fc[path]))), d, fc,
                   [hs EXCEPT ![k] = fed_with(hs[k], fc[path])], 1)
  ELSE IF os_read(path, fc, fault) = "ENOENT"
  THEN FileOutcome(ReturnStr(<<>>), d, fc, hs, 1)
  ELSE FileOutcome(Raise("OSError", os_read(path, fc, fault)), d, fc, hs, 1)

\* variant: the name of the file is fed instead of its content
hash_file_of_name(path, k, d, fc, hs, fault) ==
  IF path_isdir(path, d) THEN FileOutcome(ReturnStr(<<>>), d, fc, hs, 0)
  ELSE IF os_read(path, fc, fault) = OsOk
  THEN FileOutcome(ReturnStr(hexdigest(fed_with(hs[k], path))), d, fc,
                   [hs EXCEPT ![k] = fed_with(hs[k], path)], 1)
  ELSE IF os_read(path, fc, fault) = "ENOENT"
  THEN FileOutcome(ReturnStr(<<>>), d, fc, hs, 1)
  ELSE FileOutcome(Raise("OSError", os_read(path, fc, fault)), d, fc, hs, 1)

\* hash_file(path, hashobj), hashobj being accumulator k
hash_file(path, k, d, fc, hs, fault) ==
  IF path_isdir(path, d) THEN FileOutcome(ReturnStr(<<>>), d, fc, hs, 0)
  ELSE IF os_read(path, fc, fault) = OsOk
  THEN FileOutcome(ReturnStr(hexdigest(fed_with(hs[k], fc[path]))), d, fc,
                   [hs EXCEPT ![k] = fed_with(hs[k], fc[path])], 1)
  ELSE IF os_read(path, fc, fault) = "ENOENT"
  THEN FileOutcome(ReturnStr(<<>>), d, fc, hs, 1)
  ELSE FileOutcome(Raise("OSError", os_read(path, fc, fault)), d, fc, hs, 1)

\* init()
init_call(o, d, fc, hs) ==
  FileOutcome([kind |-> "return", value |-> init_conn(o)], init_dirs(o, d), fc, hs, 0)

(***************************************************************************)
(* Specification of the file operations: Init draws the directories and    *)
(* files that exist and the caller's accumulators; init, remove_file and   *)
(* hash_file are called, history keeps the calls of the run.               *)
(***************************************************************************)
S_MORE == <<"m","o","r","e">>

FILE_A == sep_join(DIR_F, S_README)
FILE_B == sep_join(DIR_P, S_README)

\* the paths handed to remove_file and hash_file
OpPaths == {FILE_A, FILE_B, DIR_F}

HashFaults == {None, Some("EACCES"), Some("EIO"), Some("update")}

\* the (conn, fault) pairs of the remove_file calls
RemoveInputs ==
  {<<None, None>>, <<Some(init_conn(OptsWithForce(Some("master"), FALSE))), None>>,
   <<Some(init_conn(OptsWithForce(Some("master"), FALSE))), Some("EACCES")>>}

\* the (path, fault) pairs of the hash_file calls
HashInputs == ({FILE_A, FILE_B} \X HashFaults) \cup {<<DIR_F, None>>}

Algorithms == {"sha1", "md5"}

NewHash(alg) == [alg |-> alg, fed |-> <<>>]

\* contents FILE_A and FILE_B can have when their directory exists
ContentsOfA == {None, Some(S_TEXT)}
ContentsOfB == {Some(S_TEXT), Some(S_MORE)}

FilesWith(a, b) ==
  [p \in (IF a = None THEN {} ELSE {FILE_A}) \cup (IF b = None THEN {} ELSE {FILE_B})
     |-> IF p = FILE_A THEN a[1] ELSE b[1]]

InitFiles ==
  /\ opts = OptsWithForce(Some("master"), FALSE)
  /\ \/ dirs = {} /\ fcontent = FilesWith(None, None)
     \/ /\ dirs = ConfiguredDirs
        /\ \E a \in ContentsOfA, b \in ContentsOfB : fcontent = FilesWith(a, b)
  /\ \E alg \in Algorithms : hashobjs = <<NewHash("sha1"), NewHash(alg)>>
  /\ history = <<>>
  /\ files = {}
  /\ formula_def = [k \in {"name"} |-> S_APACHE]
  /\ members = <<>>
  /\ extracted = <<>>
  /\ repo_metadata = <<>>
  /\ pkgdb = <<>>
  /\ repos = <<>>
  /\ call = [op |-> "none"]

\* the record of a call: its arguments, the state before and after, the result
CallRecord(op, args, out) ==
  [op |-> op, args |-> args, dirs0 |-> dirs, fcontent0 |-> fcontent,
   hashobjs0 |-> hashobjs, dirs1 |-> out.dirs, fcontent1 |-> out.fcontent,
   hashobjs1 |-> out.hashobjs, oscalls |-> out.oscalls, ret |-> out.ret]

FileCall(op, args, out) ==
  /\ Len(history) < MaxCalls
  /\ call' = CallRecord(op, args, out)
  /\ history' = Append(history, CallRecord(op, args, out))
  /\ dirs' = out.dirs
  /\ fcontent' = out.fcontent
  /\ hashobjs' = out.hashobjs
  /\ UNCHANGED <<opts, files, formula_def, members, extracted, repo_metadata, pkgdb, repos>>

InitCall ==
  \E out \in {init_call(opts, dirs, fcontent, hashobjs)} :
    FileCall("init", [path |-> None, conn |-> None, fault |-> None, hashobj |-> 0], out)

RemoveFile(path, conn, fault) ==
  \E out \in {remove_file(path, conn, opts, dirs, fcontent, hashobjs, fault)} :
    FileCall("remove_file",
             [path |-> Some(path), conn |-> conn, fault |-> fault, hashobj |-> 0], out)

HashFile(path, k, fault) ==
  \E out \in {hash_file(path, k, dirs, fcontent, hashobjs, fault)} :
    FileCall("hash_file",
             [path |-> Some(path), conn |-> None, fault |-> fault, hashobj |-> k], out)

NextFiles ==
  \/ InitCall
  \/ \E path \in OpPaths, cf \in RemoveInputs : RemoveFile(path, cf[1], cf[2])
  \/ \E pf \in HashInputs, k \in DOMAIN hashobjs : HashFile(pf[1], k, pf[2])

SpecFiles == InitFiles /\ [][NextFiles]_vars

(***************************************************************************)
(* The repository listing of salt/modules/spm.py.                          *)
(*                                                                         *)
(* repo_metadata is what spm_client._get_repo_metadata() returns: the      *)
(* repositories in the order the dict is traversed, each with its name,    *)
(* its url (None when the info has none) and its packages in dict order.   *)
(* Versions and releases are one-digit numbers, for which the order of     *)
(* Python strings and of Python numbers is the same.                       *)
(***************************************************************************)
S_FOO == <<"f","o","o">>
S_FOOBAR == <<"f","o","o","b","a","r">>
S_BAR == <<"b","a","r">>
S_SPM_EXT == <<".","s","p","m">>
S_FILE_SCHEME == <<"f","i","l","e",":","/","/">>
URL_HTTP == <<"h","t","t","p",":","/","/","h">>
URL_FILE == S_FILE_SCHEME \o <<"/","s">>

RepoPkg(name, version, release) ==
  [name |-> name, version |-> version, release |-> release,
   filename |-> name \o S_SPM_EXT]

Repo(name, url, packages) == [name |-> name, url |-> url, packages |-> packages]

\* "pkg in repo_pkg" for strings
Contains(str, sub) == Find(str, sub) # 0

\* the source of a package: url/filename, or the filename when the url is falsy
source_of(url, filename) ==
  IF Truthy(url) THEN url[1] \o SLASH \o filename ELSE filename

\* the test of line 243: no pkg given, or the exact name, or a name holding pkg
pkg_selected(pkg, exact_pkg, repo_pkg) ==
  \/ ~Truthy(pkg)
  \/ exact_pkg /\ pkg[1] = repo_pkg
  \/ ~exact_pkg /\ Contains(repo_pkg, pkg[1])

\* the dict appended to packages for one package of one repository
package_entry(r, q) ==
  [name |-> q.name, version |-> q.version, release |-> q.release,
   repo |-> r.name, source |-> source_of(r.url, q.filename)]

\* the entries of repository r, in the order of its packages
RECURSIVE repo_entries_from(_, _, _, _)
repo_entries_from(j, r, pkg, exact_pkg) ==
  IF j > Len(r.packages) THEN <<>>
  ELSE (IF pkg_selected(pkg, exact_pkg, r.packages[j].name)
        THEN <<package_entry(r, r.packages[j])>> ELSE <<>>)
       \o repo_entries_from(j + 1, r, pkg, exact_pkg)

\* the first loop of _list_repo_packages: packages, repository by repository
RECURSIVE all_entries_from(_, _, _, _, _)
all_entries_from(i, rm, pkg, exact_pkg, repo) ==
  IF i > Len(rm) THEN <<>>
  ELSE (IF ~Truthy(repo) \/ repo[1] = rm[i].name
        THEN repo_entries_from(1, rm[i], pkg, exact_pkg) ELSE <<>>)
       \o all_entries_from(i + 1, rm, pkg, exact_pkg, repo)

\* lines 280-299: does package replace the entry kept for its name?
\* (repo_vers and repo_rels hold the version and release of the kept entry)
replaces(kept, package) ==
  IF kept.version = package.version
  THEN IF kept.release > package.release THEN TRUE
       ELSE kept.release = package.release /\ StartsWith(package.source, S_FILE_SCHEME)
  ELSE kept.version > package.version

\* latest_packages: the names in insertion order and the entry kept for each
NoLatest == [order |-> <<>>, kept |-> <<>>]

RECURSIVE latest_from(_, _, _)
latest_from(i, packages, acc) ==
  IF i > Len(packages) THEN acc
  ELSE IF \A k \in DOMAIN acc.order : acc.order[k] # packages[i].name
  THEN latest_from(i + 1, packages,
                   [order |-> Append(acc.order, packages[i].name),
                    kept |-> Append(acc.kept, packages[i])])
  ELSE latest_from(i + 1, packages,
                   [acc EXCEPT !.kept =
                      [k \in DOMAIN acc.kept |->
                         IF acc.order[k] = packages[i].name
                            /\ replaces(acc.kept[k], packages[i])
                         THEN packages[i] ELSE acc.kept[k]]])

\* a returned collection: a list, or the dict_values view of latest_packages
ReturnColl(type, value) == [kind |-> "return", type |-> type, value |-> value]

_list_repo_packages(rm, pkg, exact_pkg, repo, latest) ==
  IF ~latest
  THEN ReturnColl("list", all_entries_from(1, rm, pkg, exact_pkg, repo))
  ELSE ReturnColl("dict_values",
                  latest_from(1, all_entries_from(1, rm, pkg, exact_pkg, repo),
                              NoLatest).kept)

list_repo_packages(rm, pkg, repo, latest) ==
  _list_repo_packages(rm, pkg, FALSE, repo, latest)

\* repo_info: len() of the view, then packages[0], which a dict_values view
\* does not support
repo_info(rm, pkg) ==
  IF Len(_list_repo_packages(rm, pkg, TRUE, None, TRUE).value) = 0
  THEN ReturnColl("dict", <<>>)
  ELSE IF _list_repo_packages(rm, pkg, TRUE, None, TRUE).type = "list"
  THEN ReturnColl("dict", <<_list_repo_packages(rm, pkg, TRUE, None, TRUE).value[1]>>)
  ELSE Raise("TypeError", "dict_values")

(***************************************************************************)
(* Specification of the listing: Init draws the metadata of two            *)
(* repositories, a listing or repo_info is called once.                    *)
(***************************************************************************)
S_R1 == <<"r","1">>
S_R2 == <<"r","2">>

RepoUrls == {None, Some(URL_HTTP), Some(URL_FILE)}

\* foo in a repository: absent, or one of three (version, release) pairs
FooChoices == {<<>>} \cup {<<RepoPkg(S_FOO, vr[1], vr[2])>> :
                             vr \in {<<1, 1>>, <<1, 2>>, <<2, 1>>}}
FoobarChoices == {<<>>, <<RepoPkg(S_FOOBAR, 1, 1)>>}

RepoValues(name) ==
  {Repo(name, url, foo \o foobar) :
     url \in RepoUrls, foo \in FooChoices, foobar \in FoobarChoices}

InitRepo ==
  /\ \E ra \in RepoValues(S_R1), rb \in RepoValues(S_R2) :
       repo_metadata \in {<<ra, rb>>, <<rb, ra>>}
  /\ pkgdb = <<>>
  /\ repos = <<>>
  /\ opts = OptsWithForce(Some("master"), FALSE)
  /\ dirs = {}
  /\ fcontent = <<>>
  /\ hashobjs = <<>>
  /\ history = <<>>
  /\ files = {}
  /\ formula_def = [k \in {"name"} |-> S_FOO]
  /\ members = <<>>
  /\ extracted = <<>>
  /\ call = [op |-> "none"]

ListRepoPackages(pkg, repo, latest) ==
  /\ call.op = "none"
  /\ \E out \in {list_repo_packages(repo_metadata, pkg, repo, latest)} :
       call' = [op |-> "list_repo_packages", pkg |-> pkg, repo |-> repo,
                latest |-> latest, ret |-> out]
  /\ UNCHANGED <<opts, dirs, files, formula_def, members, extracted, fcontent,
                 hashobjs, history, repo_metadata, pkgdb, repos>>

RepoInfo(pkg) ==
  /\ call.op = "none"
  /\ \E out \in {repo_info(repo_metadata, Some(pkg))} :
       call' = [op |-> "repo_info", pkg |-> Some(pkg), repo |-> None,
                latest |-> TRUE, ret |-> out]
  /\ UNCHANGED <<opts, dirs, files, formula_def, members, extracted, fcontent,
                 hashobjs, history, repo_metadata, pkgdb, repos>>

NextRepo ==
  \/ \E pkg \in {None, Some(S_FOO)}, repo \in {None, Some(S_R1)}, latest \in BOOLEAN :
       ListRepoPackages(pkg, repo, latest)
  \/ \E pkg \in {S_FOO, S_FOOBAR, S_BAR} : RepoInfo(pkg)

SpecRepo == InitRepo /\ [][NextRepo]_vars

(***************************************************************************)
(* install of salt/modules/spm.py.                                         *)
(*                                                                         *)
(* pkgdb is the database of installed packages: a function from the names  *)
(* of the installed packages to their info.  The SPM client is outside     *)
(* this repository; what its commands do is drawn with each call (env):    *)
(* whether "remove" removes the packages, whether it leaves their files    *)
(* behind, whether os.remove of a leftover file succeeds, which packages   *)
(* "install" installs and in which version, and whether "install" leaves   *)
(* statuses behind in the user interface.                                  *)
(***************************************************************************)
Info(version, release) == [version |-> version, release |-> release]

\* str() of a one-digit number
Digit(n) == <<"0", "1", "2", "3", "4", "5", "6", "7", "8", "9">>[n + 1]

\* "{}-{}".format(version, release)
version_format(info) == <<Digit(info.version), "-", Digit(info.release)>>

\* the order in which the database lists the packages
PkgOrder == <<S_BAR, S_FOO, S_FOOBAR>>

\* _installed_info: the info of the package, {} when it is not installed
_installed_info(db, pkg) == IF pkg \in DOMAIN db THEN db[pkg] ELSE <<>>

\* spm_client.run(["list", "packages"]): the names are appended to the
\* statuses the user interface holds; _list_installed_packages returns them
\* all when no pkg is given
_list_installed_packages(db, statuses) ==
  statuses \o SelectSeq(PkgOrder, LAMBDA n : n \in DOMAIN db)

\* "x in list"
InList(x, l) == \E k \in DOMAIN l : l[k] = x

\* variant: the release is left out
installed_version_no_release(db, pkg) ==
  IF "version" \notin DOMAIN _installed_info(db, pkg) THEN <<>>
  ELSE <<Digit(_installed_info(db, pkg).version)>>

\* get_version_info of install: "" when the info has no version
installed_version(db, pkg) ==
  IF "version" \notin DOMAIN _installed_info(db, pkg) THEN <<>>
  ELSE version_format(_installed_info(db, pkg))

\* the directory and the file that "list files" reports for a package
PkgDir(pkg) == sep_join(DIR_F, pkg)
PkgFile(pkg) == sep_join(PkgDir(pkg), S_README)
list_files(pkg) == <<PkgDir(pkg), PkgFile(pkg)>>

\* a command given to the client, or an os.remove of install itself
Cmd(cmd, args, ok) == [cmd |-> cmd, args |-> args, ok |-> ok]

\* variant: every requested package is taken as installed
is_installed_always(pkg, old_pkgs) == TRUE

\* line 465: "pkg in old_pkgs"
is_installed(pkg, old_pkgs) == InList(pkg, old_pkgs)

\* lines 464-470: the requested packages that are installed, in order
RECURSIVE to_remove_from(_, _, _)
to_remove_from(i, pkgs, old_pkgs) ==
  IF i > Len(pkgs) THEN <<>>
  ELSE (IF is_installed(pkgs[i], old_pkgs) THEN <<pkgs[i]>> ELSE <<>>)
       \o to_remove_from(i + 1, pkgs, old_pkgs)

\* lines 474-477: one "list files" per package to remove
RECURSIVE list_files_cmds(_, _)
list_files_cmds(i, to_remove) ==
  IF i > Len(to_remove) THEN <<>>
  ELSE <<Cmd("list_files", <<to_remove[i]>>, TRUE)>> \o list_files_cmds(i + 1, to_remove)

RECURSIVE files_to_remove_from(_, _)
files_to_remove_from(i, to_remove) ==
  IF i > Len(to_remove) THEN <<>>
  ELSE list_files(to_remove[i]) \o files_to_remove_from(i + 1, to_remove)

\* the client's "remove": the packages leave the database when it succeeds,
\* and their files are deleted unless the client leaves them behind
client_remove_db(db, to_remove, env) ==
  IF env.remove_ok THEN [n \in {m \in DOMAIN db : ~InList(m, to_remove)} |-> db[n]]
  ELSE db

client_remove_files(fc, to_remove, env) ==
  IF env.remove_ok /\ ~env.leaves_files
  THEN [q \in {r \in DOMAIN fc : \A k \in DOMAIN to_remove : r # PkgFile(to_remove[k])}
          |-> fc[q]]
  ELSE fc

\* lines 487-494: the files still there that are no directories are removed,
\* a failure is logged and the loop goes on
Unlinked(fc, cmds) == [fcontent |-> fc, cmds |-> cmds]

RECURSIVE unlink_from(_, _, _, _, _)
unlink_from(i, file_names, d, acc, env) ==
  IF i > Len(file_names) THEN acc
  ELSE IF ~path_exists(file_names[i], d, acc.fcontent) \/ path_isdir(file_names[i], d)
  THEN unlink_from(i + 1, file_names, d, acc, env)
  ELSE IF env.unlink_ok
  THEN unlink_from(i + 1, file_names, d,
                   Unlinked(without_file(acc.fcontent, file_names[i]),
                            Append(acc.cmds, Cmd("os_remove", <<file_names[i]>>, TRUE))),
                   env)
  ELSE unlink_from(i + 1, file_names, d,
                   Unlinked(acc.fcontent,
                            Append(acc.cmds, Cmd("os_remove", <<file_names[i]>>, FALSE))),
                   env)

\* the client's "install": the packages of env.installs among those asked for
\* are installed in the version the repositories offer
client_install_db(db, to_install, env) ==
  [n \in DOMAIN db \cup {m \in env.installs : InList(m, to_install)} |->
     IF n \in env.installs /\ InList(n, to_install) THEN env.offers ELSE db[n]]

client_install_dirs(d, to_install, env) ==
  d \cup {DIR_F} \cup {PkgDir(m) : m \in {n \in env.installs : InList(n, to_install)}}

client_install_files(fc, to_install, env) ==
  [q \in DOMAIN fc \cup {PkgFile(m) : m \in {n \in env.installs : InList(n, to_install)}}
     |-> IF q \in DOMAIN fc THEN fc[q] ELSE S_TEXT]

\* the statuses the user interface holds after "install"
client_install_statuses(to_install, env) == IF env.echo THEN to_install ELSE <<>>

\* the pkgs argument: not passed, a list, or something that is not a list
PkgsNone == [type |-> "none", items |-> <<>>]
PkgsList(l) == [type |-> "list", items |-> l]
PkgsStr(str) == [type |-> "str", items |-> str]

InstallOut(ret, db, d, fc, cmds) ==
  [ret |-> ret, pkgdb |-> db, dirs |-> d, fcontent |-> fc, cmds |-> cmds]

ReturnDict(dict) == [kind |-> "return", value |-> dict]

\* is_true(refresh) then refresh_metadata(), lines 433-434
refresh_cmds(refresh) ==
  IF refresh THEN <<Cmd("refresh_metadata", <<>>, TRUE)>> ELSE <<>>

\* lines 449-510, pkgs being the list of requested packages
install_pkgs(pkgs, refresh, db, d, fc, env) ==
  LET old_pkgs == _list_installed_packages(db, <<>>)
      to_remove == to_remove_from(1, pkgs, old_pkgs)
      db_removed == client_remove_db(db, to_remove, env)
      unlinked == unlink_from(1, files_to_remove_from(1, to_remove), d,
                              Unlinked(client_remove_files(fc, to_remove, env), <<>>), env)
      db_new == client_install_db(db_removed, pkgs, env)
      new_pkgs == _list_installed_packages(db_new, client_install_statuses(pkgs, env))
  IN  InstallOut(
        ReturnDict([p \in {pkgs[k] : k \in DOMAIN pkgs} |->
                      [old |-> IF is_installed(p, old_pkgs) THEN installed_version(db, p)
                               ELSE <<>>,
                       new |-> IF InList(p, new_pkgs) THEN installed_version(db_new, p)
                               ELSE <<>>]]),
        db_new,
        client_install_dirs(d, pkgs, env),
        client_install_files(unlinked.fcontent, pkgs, env),
        refresh_cmds(refresh)
          \o <<Cmd("list_packages", <<>>, TRUE)>>
          \o list_files_cmds(1, to_remove)
          \o <<Cmd("remove", to_remove, env.remove_ok)>>
          \o unlinked.cmds
          \o <<Cmd("install", pkgs, TRUE), Cmd("list_packages", <<>>, TRUE)>>)

\* install(name, refresh, pkgs), lines 433-447 and then install_pkgs
install(name, refresh, pkgs, db, d, fc, env) ==
  IF pkgs.type = "str" /\ pkgs.items # <<>>
  THEN InstallOut(Raise("SaltInvocationError", "pkgs"), db, d, fc, refresh_cmds(refresh))
  ELSE IF pkgs.type = "list" /\ pkgs.items = <<>>
  THEN InstallOut(Raise("SaltInvocationError", "pkgs"), db, d, fc, refresh_cmds(refresh))
  ELSE IF pkgs.type = "list"
  THEN install_pkgs(pkgs.items, refresh, db, d, fc, env)
  ELSE install_pkgs(<<name>>, refresh, db, d, fc, env)

(***************************************************************************)
(* Specification of install: Init draws the installed packages and their   *)
(* files, install is called once with what the client does drawn with it.  *)
(***************************************************************************)
ClientEnvs ==
  [remove_ok : BOOLEAN, leaves_files : BOOLEAN, unlink_ok : BOOLEAN,
   installs : SUBSET {S_FOO, S_BAR}, offers : {Info(1, 2), Info(2, 1)},
   echo : BOOLEAN]

PkgsValues ==
  {PkgsNone, PkgsList(<<>>), PkgsList(<<S_FOO>>), PkgsList(<<S_FOO, S_BAR>>),
   PkgsList(<<S_BAR, S_FOO, S_BAR>>), PkgsStr(S_FOO), PkgsStr(<<>>)}

\* the databases of the runs: foo and bar, each installed or not
PkgDbs ==
  {[n \in ns |-> IF n = S_FOO THEN Info(1, 1) ELSE v] :
     ns \in SUBSET {S_FOO, S_BAR}, v \in {Info(1, 1), Info(1, 2)}}

InitInstall ==
  /\ pkgdb \in PkgDbs
  /\ dirs = {DIR_F} \cup {PkgDir(n) : n \in DOMAIN pkgdb}
  /\ \E present \in BOOLEAN :
       fcontent = [q \in {PkgFile(n) : n \in {m \in DOMAIN pkgdb : present}} |-> S_TEXT]
  /\ opts = OptsWithForce(Some("master"), FALSE)
  /\ repo_metadata = <<>>
  /\ repos = <<>>
  /\ hashobjs = <<>>
  /\ history = <<>>
  /\ files = {}
  /\ formula_def = [k \in {"name"} |-> S_FOO]
  /\ members = <<>>
  /\ extracted = <<>>
  /\ call = [op |-> "none"]

ModInstall(name, refresh, pkgs, env) ==
  /\ call.op = "none"
  /\ \E out \in {install(name, refresh, pkgs, pkgdb, dirs, fcontent, env)} :
       /\ call' = [op |-> "install", name |-> name, refresh |-> refresh, pkgs |-> pkgs,
                   env |-> env, pkgdb0 |-> pkgdb, dirs0 |-> dirs, fcontent0 |-> fcontent,
                   ret |-> out.ret, cmds |-> out.cmds]
       /\ pkgdb' = out.pkgdb
       /\ dirs' = out.dirs
       /\ fcontent' = out.fcontent
  /\ UNCHANGED <<opts, files, formula_def, members, extracted, hashobjs, history,
                 repo_metadata, repos>>

NextInstall ==
  \E refresh \in BOOLEAN, pkgs \in PkgsValues, env \in ClientEnvs :
    ModInstall(S_FOO, refresh, pkgs, env)

SpecInstall == InitInstall /\ [][NextInstall]_vars

(***************************************************************************)
(* salt/states/spm.py: the refresh tag, mod_init and latest.               *)
(*                                                                         *)
(* The functions reached through __salt__ are those of salt/modules/spm.py *)
(* modelled above.  What the host and the client do is drawn with each     *)
(* call (env, in addition to the fields of ClientEnvs): tag_fault says     *)
(* that the os.remove or the open of the refresh tag fails, salt_error     *)
(* names the __salt__ function that raises CommandExecutionError.          *)
(***************************************************************************)
S_SPM_REFRESH == <<"s","p","m","_","r","e","f","r","e","s","h">>

\* _refresh_tag(), the cache directory being CACHE_DIR
REFRESH_TAG == sep_join(CACHE_DIR, S_SPM_REFRESH)

\* os.path.isfile(_refresh_tag())
tag_isfile(fc) == REFRESH_TAG \in DOMAIN fc

\* _write_refresh_tag: the file is created empty when it is missing, a
\* failure is logged
_write_refresh_tag(fc, env) ==
  IF REFRESH_TAG \in DOMAIN fc \/ env.tag_fault THEN fc
  ELSE [q \in DOMAIN fc \cup {REFRESH_TAG} |-> IF q = REFRESH_TAG THEN <<>> ELSE fc[q]]

\* variant: the tag is kept
_clear_refresh_tag_keeps(fc, env) == fc

\* _clear_refresh_tag of the execution module: a missing tag is fine, any
\* other failure is logged
_clear_refresh_tag(fc, env) ==
  IF REFRESH_TAG \in DOMAIN fc /\ ~env.tag_fault THEN without_file(fc, REFRESH_TAG)
  ELSE fc

\* _check_refresh: refresh is None (unset), Some(TRUE) or Some(FALSE)
_check_refresh(refresh, fc) ==
  refresh = Some(TRUE) \/ (tag_isfile(fc) /\ refresh # Some(FALSE))

\* mod_init(low): the tag is written for the functions installed and latest
ModInitOut(ret, fc) == [ret |-> ret, fcontent |-> fc]

mod_init(fun, fc, env) ==
  IF fun = "installed" \/ fun = "latest"
  THEN ModInitOut(TRUE, _write_refresh_tag(fc, env))
  ELSE ModInitOut(FALSE, fc)

\* a call made through __salt__
SaltCall(fun, args) == [fun |-> fun, args |-> args]

\* the state return: result is None, Some(TRUE) or Some(FALSE), the comment
\* is named, not spelled out
StateRet(name, changes, result, comment) ==
  [name |-> name, changes |-> changes, result |-> result, comment |-> comment]

\* the keys of repack_dictlist(pkgs): the names, each once, in order
RECURSIVE dict_keys_from(_, _, _)
dict_keys_from(i, items, acc) ==
  IF i > Len(items) THEN acc
  ELSE dict_keys_from(i + 1, items,
                      IF InList(items[i], acc) THEN acc ELSE Append(acc, items[i]))

\* the names of a listing
RECURSIVE names_from(_, _)
names_from(i, packages) ==
  IF i > Len(packages) THEN <<>>
  ELSE <<packages[i].name>> \o names_from(i + 1, packages)

\* lines 169-171: avail, the listed package of each desired name
avail_of(packages, desired_pkgs) ==
  [n \in {packages[k].name : k \in {j \in DOMAIN packages :
                                       InList(packages[j].name, desired_pkgs)}} |->
     packages[CHOOSE k \in DOMAIN packages :
                /\ packages[k].name = n
                /\ \A j \in DOMAIN packages : packages[j].name = n => j <= k]]

\* the value of a digit
DigitValue(c) == CHOOSE n \in 0..9 : Digit(n) = c

\* salt.utils.versions.version_cmp on two "<version>-<release>" strings
version_cmp(a, b) ==
  IF DigitValue(a[1]) > DigitValue(b[1]) THEN 1
  ELSE IF DigitValue(a[1]) < DigitValue(b[1]) THEN -1
  ELSE IF DigitValue(a[3]) > DigitValue(b[3]) THEN 1
  ELSE IF DigitValue(a[3]) < DigitValue(b[3]) THEN -1
  ELSE 0

\* variant: a lower available version is a target as well
is_target_any_difference(pkg, avail, db, exact_versions) ==
  /\ pkg \in DOMAIN avail
  /\ \/ _installed_info(db, pkg) = <<>>
     \/ version_cmp(version_format(avail[pkg]),
                    version_format(_installed_info(db, pkg))) # 0

\* lines 198-217: pkg goes to targets
is_target(pkg, avail, db, exact_versions) ==
  /\ pkg \in DOMAIN avail
  /\ \/ _installed_info(db, pkg) = <<>>
     \/ version_cmp(version_format(avail[pkg]),
                    version_format(_installed_info(db, pkg))) = 1
     \/ /\ exact_versions
        /\ version_cmp(version_format(avail[pkg]),
                       version_format(_installed_info(db, pkg))) # 0

\* lines 199-204: pkg is a problem, there is no information on it
is_problem(pkg, avail, db) == pkg \notin DOMAIN avail /\ _installed_info(db, pkg) = <<>>

\* lines 283-289: the targets that failed to update
failed_targets(targets, changes) ==
  {x \in DOMAIN targets : x \notin DOMAIN changes \/ changes[x].new # targets[x]}

\* variant: the test option is not looked at
dry_run_ignored(o) == FALSE

\* __opts__["test"]
dry_run(o) == o["test"]

LatestOut(ret, calls, db, d, fc) ==
  [ret |-> ret, calls |-> calls, pkgdb |-> db, dirs |-> d, fcontent |-> fc]

\* lines 281-357: the return after spm.install has returned changes
latest_installed(name, targets, out, calls) ==
  LatestOut(
    StateRet(name, out.ret.value,
             Some(out.ret.value # <<>> /\ failed_targets(targets, out.ret.value) = {}),
             IF out.ret.value = <<>> THEN "failed to update"
             ELSE IF failed_targets(targets, out.ret.value) = {} THEN "installed/upgraded"
             ELSE "failed to update"),
    calls, out.pkgdb, out.dirs, out.fcontent)

\* lines 227-368: targets are known, targeted_pkgs being list(targets)
latest_targets(name, targets, targeted_pkgs, o, db, d, fc, calls, env) ==
  IF targeted_pkgs = <<>>
  THEN LatestOut(StateRet(name, <<>>, Some(TRUE), "up-to-date"), calls, db, d, fc)
  ELSE IF dry_run(o)
  THEN LatestOut(StateRet(name, <<>>, None, "would be installed/upgraded"),
                 calls, db, d, fc)
  ELSE latest_installed(name, targets,
                        install(None, FALSE, PkgsList(targeted_pkgs), db, d, fc, env),
                        Append(calls, SaltCall("spm.install", targeted_pkgs)))

\* lines 181-225: avail is known; cur, targets and problems
latest_avail(name, exact_versions, desired_pkgs, avail, o, db, d, fc, calls, env) ==
  IF env.salt_error = "spm.installed_info"
  THEN LatestOut(StateRet(name, <<>>, Some(FALSE), "error"),
                 Append(calls, SaltCall("spm.installed_info", <<desired_pkgs[1]>>)),
                 db, d, fc)
  ELSE IF \E k \in DOMAIN desired_pkgs : is_problem(desired_pkgs[k], avail, db)
  THEN LatestOut(StateRet(name, <<>>, Some(FALSE), "No SPM information found"),
                 Append(calls, SaltCall("spm.installed_info", desired_pkgs)), db, d, fc)
  ELSE latest_targets(
         name,
         [n \in {desired_pkgs[k] : k \in {j \in DOMAIN desired_pkgs :
                   is_target(desired_pkgs[j], avail, db, exact_versions)}} |->
            version_format(avail[n])],
         SelectSeq(desired_pkgs, LAMBDA n : is_target(n, avail, db, exact_versions)),
         o, db, d, fc,
         Append(calls, SaltCall("spm.installed_info", desired_pkgs)), env)

\* lines 161-179: desired_pkgs is known; the listing of the latest packages
latest_desired(name, exact_versions, desired_pkgs, o, rm, db, d, fc, calls, env) ==
  IF env.salt_error = "spm.list_repo_packages"
  THEN LatestOut(StateRet(name, <<>>, Some(FALSE), "error"),
                 Append(calls, SaltCall("spm.list_repo_packages", <<>>)), db, d, fc)
  ELSE latest_avail(name, exact_versions, desired_pkgs,
                    avail_of(list_repo_packages(rm, None, None, TRUE).value, desired_pkgs),
                    o, db, d, fc,
                    Append(calls, SaltCall("spm.list_repo_packages", <<>>)), env)

\* lines 123-159: the refresh is done; the desired packages
latest_refreshed(name, exact_versions, pkgs, fromrepo, o, rm, db, d, fc, calls, env) ==
  IF pkgs.items # <<>>
  THEN IF pkgs.type = "list"
       THEN latest_desired(name, exact_versions, dict_keys_from(1, pkgs.items, <<>>),
                           o, rm, db, d, fc, calls, env)
       ELSE LatestOut(StateRet(name, <<>>, Some(FALSE), "Invalidly formatted pkgs"),
                      calls, db, d, fc)
  ELSE IF pkgs.type = "list"
  THEN LatestOut(StateRet(name, <<>>, Some(TRUE), "No SPM packages to install provided"),
                 calls, db, d, fc)
  ELSE IF Truthy(fromrepo)
  THEN IF list_repo_packages(rm, None, fromrepo, FALSE).value = <<>>
       THEN LatestOut(StateRet(name, <<>>, Some(TRUE),
                               "No SPM packages to install provided"),
                      Append(calls, SaltCall("spm.list_repo_packages", <<fromrepo[1]>>)),
                      db, d, fc)
       ELSE latest_desired(name, exact_versions,
                           names_from(1, list_repo_packages(rm, None, fromrepo,
                                                            FALSE).value),
                           o, rm, db, d, fc,
                           Append(calls, SaltCall("spm.list_repo_packages",
                                                  <<fromrepo[1]>>)), env)
  ELSE latest_desired(name, exact_versions, <<name>>, o, rm, db, d, fc, calls, env)

\* latest(name, refresh, exact_versions, pkgs, fromrepo)
latest(name, refresh, exact_versions, pkgs, fromrepo, o, rm, db, d, fc, env) ==
  IF _check_refresh(refresh, fc)
  THEN latest_refreshed(name, exact_versions, pkgs, fromrepo, o, rm, db, d,
                        _clear_refresh_tag(fc, env),
                        <<SaltCall("spm.refresh_metadata", <<>>)>>, env)
  ELSE latest_refreshed(name, exact_versions, pkgs, fromrepo, o, rm, db, d, fc, <<>>, env)

(***************************************************************************)
(* Specification of a state run: the host calls mod_init once, before the  *)
(* first spm state of the run, then spm.latest states follow.  history     *)
(* keeps the latest calls.                                                 *)
(***************************************************************************)
OptsWithTest(test) == ("test" :> test) @@ OptsWithForce(Some("master"), FALSE)

\* what the host and the client do in a call of the run: the client works,
\* the removal or the writing of the tag may fail
RunEnvs ==
  [remove_ok : {TRUE}, leaves_files : {FALSE}, unlink_ok : {TRUE},
   installs : {{S_FOO}}, offers : {Info(1, 2)}, echo : {FALSE},
   tag_fault : BOOLEAN, salt_error : {"none"}]

RefreshValues == {None, Some(TRUE), Some(FALSE)}

InitRun ==
  /\ opts = OptsWithTest(FALSE)
  /\ repo_metadata = <<Repo(S_R1, Some(URL_HTTP), <<RepoPkg(S_FOO, 1, 2)>>)>>
  /\ pkgdb \in {[n \in {S_FOO} |-> Info(1, 1)], [n \in {S_FOO} |-> Info(1, 2)]}
  /\ dirs = {DIR_F, PkgDir(S_FOO)}
  /\ fcontent = [q \in {PkgFile(S_FOO)} |-> S_TEXT]
  /\ repos = <<>>
  /\ hashobjs = <<>>
  /\ history = <<>>
  /\ files = {}
  /\ formula_def = [k \in {"name"} |-> S_FOO]
  /\ members = <<>>
  /\ extracted = <<>>
  /\ call = [op |-> "none"]

ModInit(fun, env) ==
  /\ call.op = "none"
  /\ \E out \in {mod_init(fun, fcontent, env)} :
       /\ call' = [op |-> "mod_init", fun |-> fun, env |-> env, ret |-> out.ret]
       /\ fcontent' = out.fcontent
  /\ UNCHANGED <<opts, dirs, files, formula_def, members, extracted, hashobjs, history,
                 repo_metadata, pkgdb, repos>>

\* the record of a latest call: arguments, state before, result, calls made
LatestRecord(name, refresh, exact_versions, pkgs, fromrepo, env, out) ==
  [op |-> "latest", name |-> name, refresh |-> refresh,
   exact_versions |-> exact_versions, pkgs |-> pkgs, fromrepo |-> fromrepo,
   env |-> env, test |-> opts["test"], pkgdb0 |-> pkgdb, fcontent0 |-> fcontent,
   repos0 |-> repos, ret |-> out.ret, calls |-> out.calls]

RunLatest(refresh, env) ==
  /\ call.op # "none"
  /\ Len(history) < MaxCalls
  /\ \E out \in {latest(S_FOO, refresh, FALSE, PkgsNone, None, opts, repo_metadata,
                        pkgdb, dirs, fcontent, env)} :
       /\ call' = LatestRecord(S_FOO, refresh, FALSE, PkgsNone, None, env, out)
       /\ history' = Append(history,
                            LatestRecord(S_FOO, refresh, FALSE, PkgsNone, None, env, out))
       /\ pkgdb' = out.pkgdb
       /\ dirs' = out.dirs
       /\ fcontent' = out.fcontent
  /\ UNCHANGED <<opts, files, formula_def, members, extracted, hashobjs,
                 repo_metadata, repos>>

NextRun ==
  \/ \E fun \in {"latest", "installed", "removed"}, env \in RunEnvs : ModInit(fun, env)
  \/ \E refresh \in RefreshValues, env \in RunEnvs : RunLatest(refresh, env)

SpecRun == InitRun /\ [][NextRun]_vars

(***************************************************************************)
(* salt/states/spmrepo.py: managed and absent, with mod_repo, del_repo and *)
(* get_repo of salt/modules/spm.py.                                        *)
(*                                                                         *)
(* repos holds the repository definitions on disk: a function from the     *)
(* names of the repositories to their options.  An option value is a       *)
(* Python bool, int or str, kept with its string form.  env says further   *)
(* whether spm.get_repo is loaded (has_get_repo) and whether the directory *)
(* of the repository files exists (repos_dir).                             *)
(***************************************************************************)
VBool(b) == [type |-> "bool", text |-> IF b THEN <<"T","r","u","e">>
                                        ELSE <<"F","a","l","s","e">>]
VInt(n) == [type |-> "int", text |-> <<Digit(n)>>]
VStr(str) == [type |-> "str", text |-> str]

\* str(value)
py_str(v) == v.text

\* salt.utils.data.is_true: a number above 0, the string "true" in any case,
\* the bool itself
is_true(v) ==
  IF v.type = "bool" THEN v.text = <<"T","r","u","e">>
  ELSE IF v.type = "int" THEN DigitValue(v.text[1]) > 0
  ELSE v.text \in {<<"t","r","u","e">>, <<"T","r","u","e">>, <<"1">>}

\* the number a bool or an int stands for in ==
py_number(v) ==
  IF v.type = "bool" THEN (IF is_true(v) THEN 1 ELSE 0) ELSE DigitValue(v.text[1])

\* a == b of two option values
py_eq(a, b) ==
  IF a.type = "str" \/ b.type = "str" THEN a = b
  ELSE py_number(a) = py_number(b)

\* dict.get(key) != dict.get(key), None when the key is missing
get_differs(post, pre, k) ==
  IF k \in DOMAIN post /\ k \in DOMAIN pre THEN ~py_eq(post[k], pre[k])
  ELSE k \in DOMAIN post \/ k \in DOMAIN pre

\* get_repo: the options of the repository, {} when there is none
get_repo(rs, name) == IF name \in DOMAIN rs THEN rs[name] ELSE <<>>

\* variant: values are compared by their string form only
option_matches_by_str(kwargs, pre, kwarg) ==
  IF kwarg \notin DOMAIN pre
  THEN kwarg = "enabled" /\ is_true(kwargs[kwarg])
  ELSE py_str(kwargs[kwarg]) = py_str(pre[kwarg])

\* lines 50-68 of managed: the loop does not break on kwarg
option_matches(kwargs, pre, kwarg) ==
  IF kwarg \notin DOMAIN pre
  THEN kwarg = "enabled" /\ is_true(kwargs[kwarg])
  ELSE IF kwargs[kwarg].type = "bool" \/ pre[kwarg].type = "bool"
  THEN is_true(kwargs[kwarg]) = is_true(pre[kwarg])
  ELSE py_str(kwargs[kwarg]) = py_str(pre[kwarg])

RepoOut(ret, calls, rs, fc) == [ret |-> ret, calls |-> calls, repos |-> rs, fcontent |-> fc]

\* mod_repo raises: no url given, or a new file in a directory that is missing
mod_repo_raises(name, kwargs, rs, env) ==
  "url" \notin DOMAIN kwargs \/ (name \notin DOMAIN rs /\ ~env.repos_dir)

\* mod_repo writes the file of the repository with the options given
mod_repo(name, kwargs, rs) ==
  [n \in DOMAIN rs \cup {name} |-> IF n = name THEN kwargs ELSE rs[n]]

\* lines 95-101 of managed: the changes between pre and post
managed_changes(name, kwargs, pre, post) ==
  IF pre # <<>>
  THEN [k \in {x \in DOMAIN kwargs : get_differs(post, pre, x)} |->
          [new |-> IF k \in DOMAIN post THEN post[k] ELSE VStr(<<>>),
           old |-> IF k \in DOMAIN pre THEN pre[k] ELSE VStr(<<>>)]]
  ELSE [k \in {"repo"} |-> name]

\* lines 84-115 of managed: mod_repo is called, then the changes are read
managed_apply(name, kwargs, pre, rs, fc, calls, env) ==
  IF mod_repo_raises(name, kwargs, rs, env)
  THEN RepoOut(StateRet(name, <<>>, Some(FALSE), "Failed to configure"),
               Append(calls, SaltCall("spm.mod_repo", <<name>>)), rs, fc)
  ELSE IF managed_changes(name, kwargs, pre, get_repo(mod_repo(name, kwargs, rs), name))
          # <<>>
  THEN RepoOut(StateRet(name,
                        managed_changes(name, kwargs, pre,
                                        get_repo(mod_repo(name, kwargs, rs), name)),
                        Some(TRUE), "Configured"),
               calls \o <<SaltCall("spm.mod_repo", <<name>>),
                          SaltCall("spm.get_repo", <<name>>),
                          SaltCall("spm.refresh_metadata", <<>>)>>,
               mod_repo(name, kwargs, rs), _clear_refresh_tag(fc, env))
  ELSE RepoOut(StateRet(name, <<>>, Some(TRUE), "Configured"),
               calls \o <<SaltCall("spm.mod_repo", <<name>>),
                          SaltCall("spm.get_repo", <<name>>)>>,
               mod_repo(name, kwargs, rs), fc)

\* managed(name, **kwargs)
managed(name, kwargs, o, rs, fc, env) ==
  IF ~env.has_get_repo
  THEN RepoOut(StateRet(name, <<>>, Some(FALSE), "not implemented"), <<>>, rs, fc)
  ELSE IF env.salt_error = "spm.get_repo"
  THEN RepoOut(StateRet(name, <<>>, Some(FALSE), "Failed to examine"),
               <<SaltCall("spm.get_repo", <<name>>)>>, rs, fc)
  ELSE IF /\ get_repo(rs, name) # <<>>
          /\ \A kwarg \in DOMAIN kwargs : option_matches(kwargs, get_repo(rs, name), kwarg)
  THEN RepoOut(StateRet(name, <<>>, Some(TRUE), "already configured"),
               <<SaltCall("spm.get_repo", <<name>>)>>, rs, fc)
  ELSE IF dry_run(o)
  THEN RepoOut(StateRet(name, <<>>, None, "will be configured"),
               <<SaltCall("spm.get_repo", <<name>>)>>, rs, fc)
  ELSE managed_apply(name, kwargs, get_repo(rs, name), rs, fc,
                     <<SaltCall("spm.get_repo", <<name>>)>>, env)

\* del_repo removes the file of the repository
del_repo(name, rs) == [n \in DOMAIN rs \ {name} |-> rs[n]]

\* absent(name, **kwargs); del_repo takes no keyword argument.  del_fault
\* says that the repository has no file of its own (del_repo raises), or
\* that the client still lists it after its file is removed
absent(name, kwargs, o, rs, fc, env) ==
  IF ~env.has_get_repo
  THEN RepoOut(Raise("KeyError", "spm.get_repo"), <<>>, rs, fc)
  ELSE IF env.salt_error = "spm.get_repo"
  THEN RepoOut(StateRet(name, <<>>, Some(FALSE), "Failed to configure"),
               <<SaltCall("spm.get_repo", <<name>>)>>, rs, fc)
  ELSE IF get_repo(rs, name) = <<>>
  THEN RepoOut(StateRet(name, <<>>, Some(TRUE), "is absent"),
               <<SaltCall("spm.get_repo", <<name>>)>>, rs, fc)
  ELSE IF dry_run(o)
  THEN RepoOut(StateRet(name, <<>>, None, "will be removed"),
               <<SaltCall("spm.get_repo", <<name>>)>>, rs, fc)
  ELSE IF DOMAIN kwargs # {}
  THEN RepoOut(Raise("TypeError", "del_repo"),
               <<SaltCall("spm.get_repo", <<name>>), SaltCall("spm.del_repo", <<name>>)>>,
               rs, fc)
  ELSE IF env.del_fault = "no_file"
  THEN RepoOut(StateRet(name, <<>>, Some(FALSE), "does not exist"),
               <<SaltCall("spm.get_repo", <<name>>), SaltCall("spm.del_repo", <<name>>)>>,
               rs, fc)
  ELSE IF env.del_fault = "still_listed"
  THEN RepoOut(StateRet(name, <<>>, Some(FALSE), "Failed to remove"),
               <<SaltCall("spm.get_repo", <<name>>), SaltCall("spm.del_repo", <<name>>),
                 SaltCall("spm.list_repos", <<>>)>>,
               del_repo(name, rs), fc)
  ELSE RepoOut(StateRet(name, [k \in {"repo"} |-> name], Some(TRUE), "Removed"),
               <<SaltCall("spm.get_repo", <<name>>), SaltCall("spm.del_repo", <<name>>),
                 SaltCall("spm.list_repos", <<>>)>>,
               del_repo(name, rs), fc)

(***************************************************************************)
(* Specification of the states: Init draws the test option and either the  *)
(* installed packages and the repository metadata or the repository        *)
(* definitions; one of latest, managed and absent is called once.          *)
(***************************************************************************)
\* what the host and the client do in a call of a state
StateEnvs ==
  [remove_ok : {TRUE}, leaves_files : {FALSE}, unlink_ok : {TRUE},
   installs : SUBSET {S_FOO, S_BAR}, offers : {Info(1, 2), Info(2, 1)}, echo : {FALSE},
   tag_fault : {FALSE}, salt_error : {"none"}, has_get_repo : {TRUE}, repos_dir : {TRUE},
   del_fault : {"none"}]
  \cup
  [remove_ok : {TRUE}, leaves_files : {FALSE}, unlink_ok : {TRUE},
   installs : {{S_FOO, S_BAR}}, offers : {Info(1, 2)}, echo : {FALSE},
   tag_fault : {FALSE}, salt_error : {"spm.list_repo_packages", "spm.installed_info"},
   has_get_repo : {TRUE}, repos_dir : {TRUE}, del_fault : {"none"}]

RepoEnvs ==
  [remove_ok : {TRUE}, leaves_files : {FALSE}, unlink_ok : {TRUE},
   installs : {{}}, offers : {Info(1, 2)}, echo : {FALSE},
   tag_fault : {FALSE}, salt_error : {"none", "spm.get_repo"},
   has_get_repo : BOOLEAN, repos_dir : BOOLEAN, del_fault : {"none"}]

AbsentEnvs ==
  [remove_ok : {TRUE}, leaves_files : {FALSE}, unlink_ok : {TRUE},
   installs : {{}}, offers : {Info(1, 2)}, echo : {FALSE},
   tag_fault : {FALSE}, salt_error : {"none", "spm.get_repo"},
   has_get_repo : BOOLEAN, repos_dir : {TRUE},
   del_fault : {"none", "no_file", "still_listed"}]

\* the databases of the states: foo in one of three versions, bar, or neither
StateDbs ==
  {[n \in ns |-> IF n = S_FOO THEN v ELSE Info(1, 2)] :
     ns \in SUBSET {S_FOO, S_BAR}, v \in {Info(1, 1), Info(1, 2), Info(2, 1)}}

StateMetadata ==
  {<<>>,
   <<Repo(S_R1, Some(URL_HTTP), <<RepoPkg(S_FOO, 1, 2)>>)>>,
   <<Repo(S_R1, Some(URL_HTTP), <<RepoPkg(S_BAR, 2, 1)>>)>>,
   <<Repo(S_R1, Some(URL_HTTP), <<RepoPkg(S_FOO, 2, 1), RepoPkg(S_BAR, 1, 2)>>),
     Repo(S_R2, Some(URL_FILE), <<RepoPkg(S_FOO, 1, 2)>>)>>}

LatestPkgs == {PkgsNone, PkgsList(<<>>), PkgsList(<<S_BAR, S_FOO, S_BAR>>), PkgsStr(S_FOO)}

\* the options of a repository definition, and the options a state asks for
OptionDicts ==
  {<<>>,
   [k \in {"url"} |-> VStr(URL_HTTP)],
   [k \in {"url"} |-> VStr(URL_FILE)],
   [k \in {"enabled"} |-> VInt(1)],
   [k \in {"url", "enabled"} |-> IF k = "url" THEN VStr(URL_HTTP) ELSE VBool(TRUE)],
   [k \in {"url", "enabled"} |-> IF k = "url" THEN VStr(URL_HTTP) ELSE VBool(FALSE)],
   [k \in {"url", "enabled"} |-> IF k = "url" THEN VStr(URL_HTTP) ELSE VInt(1)],
   [k \in {"url", "enabled"} |-> IF k = "url" THEN VStr(URL_HTTP) ELSE VInt(0)],
   [k \in {"url", "enabled"} |-> IF k = "url" THEN VStr(URL_HTTP)
                                  ELSE VStr(<<"t","r","u","e">>)]}

RepoDefs == {<<>>} \cup {[n \in {S_R1} |-> od] : od \in OptionDicts}

InitStates ==
  /\ \E test \in BOOLEAN : opts = OptsWithTest(test)
  /\ \/ /\ pkgdb \in StateDbs
        /\ repo_metadata \in StateMetadata
        /\ repos = <<>>
     \/ /\ pkgdb = <<>>
        /\ repo_metadata = <<>>
        /\ repos \in RepoDefs
  /\ dirs = {DIR_F} \cup {PkgDir(n) : n \in DOMAIN pkgdb}
  /\ \E tag \in {t \in BOOLEAN : t => pkgdb = <<>>} :
       fcontent = [q \in {PkgFile(n) : n \in DOMAIN pkgdb}
                         \cup {t \in {REFRESH_TAG} : tag} |->
                     IF q = REFRESH_TAG THEN <<>> ELSE S_TEXT]
  /\ hashobjs = <<>>
  /\ history = <<>>
  /\ files = {}
  /\ formula_def = [k \in {"name"} |-> S_FOO]
  /\ members = <<>>
  /\ extracted = <<>>
  /\ call = [op |-> "none"]

Latest(name, refresh, exact_versions, pkgs, fromrepo, env) ==
  /\ call.op = "none"
  /\ \E out \in {latest(name, refresh, exact_versions, pkgs, fromrepo, opts,
                        repo_metadata, pkgdb, dirs, fcontent, env)} :
       /\ call' = LatestRecord(name, refresh, exact_versions, pkgs, fromrepo, env, out)
       /\ pkgdb' = out.pkgdb
       /\ dirs' = out.dirs
       /\ fcontent' = out.fcontent
  /\ UNCHANGED <<opts, files, formula_def, members, extracted, hashobjs, history,
                 repo_metadata, repos>>

\* the record of a managed or absent call
RepoRecord(op, name, kwargs, env, out) ==
  [op |-> op, name |-> name, kwargs |-> kwargs, env |-> env, test |-> opts["test"],
   pkgdb0 |-> pkgdb, fcontent0 |-> fcontent, repos0 |-> repos,
   ret |-> out.ret, calls |-> out.calls]

Managed(name, kwargs, env) ==
  /\ call.op = "none"
  /\ \E out \in {managed(name, kwargs, opts, repos, fcontent, env)} :
       /\ call' = RepoRecord("managed", name, kwargs, env, out)
       /\ repos' = out.repos
       /\ fcontent' = out.fcontent
  /\ UNCHANGED <<opts, dirs, files, formula_def, members, extracted, hashobjs, history,
                 repo_metadata, pkgdb>>

Absent(name, kwargs, env) ==
  /\ call.op = "none"
  /\ \E out \in {absent(name, kwargs, opts, repos, fcontent, env)} :
       /\ call' = RepoRecord("absent", name, kwargs, env, out)
       /\ repos' = out.repos
       /\ fcontent' = out.fcontent
  /\ UNCHANGED <<opts, dirs, files, formula_def, members, extracted, hashobjs, history,
                 repo_metadata, pkgdb>>

NextStates ==
  \/ \E refresh \in {None, Some(TRUE)}, exact_versions \in BOOLEAN, pkgs \in LatestPkgs,
        fromrepo \in {None, Some(S_R1)}, env \in StateEnvs :
       Latest(S_FOO, refresh, exact_versions, pkgs, fromrepo, env)
  \/ \E kwargs \in OptionDicts, env \in RepoEnvs : Managed(S_R1, kwargs, env)
  \/ \E kwargs \in {<<>>, [k \in {"url"} |-> VStr(URL_HTTP)]}, env \in AbsentEnvs :
       Absent(S_R1, kwargs, env)

SpecStates == InitStates /\ [][NextStates]_vars

(***************************************************************************)
(* Properties of map_path.  The expected prefix and the trimmed path are   *)
(* stated here from the inputs of the call, independently of map_path.     *)
(***************************************************************************)
MapPathDone == call.op = "map_path" /\ call.ret # Pending

\* the connection context the call works with
CallConn == conn_or_init(call.conn, opts)

\* the expected top-level prefix of the call
ExpectedPrefix ==
  IF call.parent_dir # None /\ call.parent_dir[1] # <<>>
  THEN call.parent_dir[1]
  ELSE (IF "top_level_dir" \in DOMAIN call.formula
        THEN call.formula["top_level_dir"]
        ELSE call.formula["name"]) \o SLASH

UnderPrefix == StartsWith(call.path, ExpectedPrefix)

\* the path relative to the prefix
Trimmed == SubSeq(call.path, Len(ExpectedPrefix) + 1, Len(call.path))

CallName == call.formula["name"]

IsConfName == EndsWith(CallName, S_CONF)
IsReactorName == EndsWith(CallName, S_REACTOR)

OrdinaryTrimmed ==
  /\ Trimmed # S_FORMULA
  /\ Trimmed # S_PILLAR_EXAMPLE
  /\ ~StartsWith(Trimmed, USCORE)

\* b is the directory the context holds under key k
IsConnDir(b, k) == k \in DOMAIN CallConn /\ b = Some(CallConn[k])

NodeRoleValid == opts["spm_node_type"] \in {Some("master"), Some("minion")}

\* C1: an ordinary path under the prefix keeps its trimmed path, and its base
\* directory is chosen by the formula name only: the configuration directory
\* for "-conf", else conn['reactor_path'] for "-reactor", else
\* conn['formula_path'].
C1_OrdinaryPathByName ==
  (MapPathDone /\ UnderPrefix /\ OrdinaryTrimmed) =>
     IF IsConfName
     THEN call.ret = ReturnPair(Some(CONFIG_DIR), Some(Trimmed))
     ELSE IF IsReactorName
     THEN ("reactor_path" \in DOMAIN CallConn =>
             call.ret = ReturnPair(Some(CallConn["reactor_path"]), Some(Trimmed)))
     ELSE call.ret = ReturnPair(Some(CallConn["formula_path"]), Some(Trimmed))

C1_Witness ==
  /\ MapPathDone /\ UnderPrefix /\ OrdinaryTrimmed
  /\ Trimmed = S_DOCS \o S_README
  /\ IsConfName
  /\ call.ret = ReturnPair(Some(CONFIG_DIR), Some(S_DOCS \o S_README))

\* C2: a path that does not start with the expected prefix maps to
\* (None, None), whatever the rest of the path, the formula name or the role.
C2_OutsidePrefixUndetermined ==
  (MapPathDone /\ ~UnderPrefix) => call.ret = ReturnPair(None, None)

C2_Witness ==
  /\ MapPathDone /\ ~UnderPrefix
  /\ "top_level_dir" \in DOMAIN call.formula
  /\ call.parent_dir = None
  /\ call.path = CallName \o SLASH \o S_README
  /\ call.ret = ReturnPair(None, None)

\* C4 as stated: under "_pillar/" the base is conn['pillar_path'] and the
\* relative path never begins with "/" and contains no repeated slash.
C4_NoRepeatedSlash ==
  (MapPathDone /\ UnderPrefix /\ StartsWith(Trimmed, S_PILLAR_SLASH)
     /\ "pillar_path" \in DOMAIN CallConn) =>
     /\ call.ret.kind = "return"
     /\ call.ret.base = Some(CallConn["pillar_path"])
     /\ call.ret.file # None
     /\ ~StartsWith(call.ret.file[1], SLASH)
     /\ Find(call.ret.file[1], SLASH \o SLASH) = 0

\* the trimmed path is "_pillar", k >= 1 slashes, then rel
PillarSplit(trimmed, rel) ==
  \E k \in 1..Len(trimmed) :
    /\ Len(S_PILLAR) + k <= Len(trimmed)
    /\ \A i \in (Len(S_PILLAR) + 1)..(Len(S_PILLAR) + k) : trimmed[i] = "/"
    /\ rel = SubSeq(trimmed, Len(S_PILLAR) + k + 1, Len(trimmed))

\* C4 (amended): under "_pillar/" the base is conn['pillar_path'] and the
\* relative path is the trimmed path without the leading "_pillar" and the
\* slashes that directly follow it; it never begins with "/".
C4_PillarPrefixStripped ==
  (MapPathDone /\ UnderPrefix /\ StartsWith(Trimmed, S_PILLAR_SLASH)
     /\ "pillar_path" \in DOMAIN CallConn) =>
     /\ call.ret.kind = "return"
     /\ call.ret.base = Some(CallConn["pillar_path"])
     /\ call.ret.file # None
     /\ PillarSplit(Trimmed, call.ret.file[1])
     /\ ~StartsWith(call.ret.file[1], SLASH)

C4_Witness ==
  /\ MapPathDone /\ UnderPrefix
  /\ Trimmed = S_PILLAR_SLASH \o SLASH \o S_README
  /\ call.ret = ReturnPair(Some(DIR_P), Some(S_README))

\* C5: a trimmed path with a leading underscore that is not under "_pillar/"
\* loses exactly that underscore and goes to conn['spm_module_path'] when the
\* node role is master or minion; with any other role, or none, the mapping
\* is (None, None).
C5_ModuleFileByRole ==
  (MapPathDone /\ UnderPrefix /\ StartsWith(Trimmed, USCORE)
     /\ ~StartsWith(Trimmed, S_PILLAR_SLASH)) =>
     IF NodeRoleValid
     THEN ("spm_module_path" \in DOMAIN CallConn =>
             call.ret = ReturnPair(Some(CallConn["spm_module_path"]),
                                   Some(SubSeq(Trimmed, 2, Len(Trimmed)))))
     ELSE call.ret = ReturnPair(None, None)

C5_Witness ==
  /\ MapPathDone /\ UnderPrefix
  /\ Trimmed = USCORE \o USCORE \o S_README
  /\ opts["spm_node_type"] = Some("minion")
  /\ call.ret = ReturnPair(Some(DIR_M), Some(USCORE \o S_README))

\* C7: "pillar.example" maps to conn['pillar_path'] and "<name>.sls.orig",
\* built from the formula's name, not its top_level_dir, for every name.
C7_PillarExample ==
  (MapPathDone /\ UnderPrefix /\ Trimmed = S_PILLAR_EXAMPLE
     /\ "pillar_path" \in DOMAIN CallConn) =>
     call.ret = ReturnPair(Some(CallConn["pillar_path"]),
                           Some(CallName \o S_SLS_ORIG))

C7_Witness ==
  /\ MapPathDone /\ UnderPrefix /\ Trimmed = S_PILLAR_EXAMPLE
  /\ "top_level_dir" \in DOMAIN call.formula
  /\ IsConfName
  /\ call.ret = ReturnPair(Some(DIR_P), Some(S_XCONF \o S_SLS_ORIG))

\* C8: the rules apply in a fixed order and the first match decides: for a
\* name ending in "-conf" or "-reactor" the manifest is still undetermined, a
\* path under "_pillar/" and "pillar.example" still go to the pillar
\* directory, a leading underscore still goes to the module directory or is
\* undetermined; a "-conf" name is never sent to the reactor directory.
C8_FirstMatchWins ==
  (MapPathDone /\ UnderPrefix /\ call.ret.kind = "return"
     /\ (IsConfName \/ IsReactorName)) =>
     /\ Trimmed = S_FORMULA => call.ret.base = None
     /\ StartsWith(Trimmed, S_PILLAR_SLASH) =>
          IsConnDir(call.ret.base, "pillar_path")
     /\ (StartsWith(Trimmed, USCORE) /\ ~StartsWith(Trimmed, S_PILLAR_SLASH)) =>
          (call.ret.base = None \/ IsConnDir(call.ret.base, "spm_module_path"))
     /\ Trimmed = S_PILLAR_EXAMPLE =>
          IsConnDir(call.ret.base, "pillar_path")
     /\ IsConfName => call.ret.base # Some(DIR_R)

C8_Witness ==
  /\ MapPathDone /\ UnderPrefix /\ IsConfName
  /\ Trimmed = S_PILLAR_SLASH \o S_README
  /\ call.ret = ReturnPair(Some(DIR_P), Some(S_README))

\* C9: whenever map_path returns, either both halves of the pair are None
\* or neither is.
C9_BothOrNeither ==
  (MapPathDone /\ call.ret.kind = "return") =>
     (call.ret.base = None) <=> (call.ret.file = None)

C9_Witness ==
  /\ MapPathDone /\ UnderPrefix
  /\ Trimmed = USCORE \o S_README
  /\ opts["spm_node_type"] = Some("syndic")
  /\ call.ret = ReturnPair(None, None)

(***************************************************************************)
(* Properties of install_file.                                             *)
(***************************************************************************)
InstallDone == call.op = "install_file"

\* C3: the manifest is never installed: for the member "<prefix>FORMULA"
\* map_path returns (None, None) for every formula name and node role,
\* install_file returns False and extracts nothing.
C3_ManifestNeverInstalled ==
  (InstallDone /\ call.name = TopLevelDir(formula_def) \o SLASH \o S_FORMULA) =>
     /\ call.mapped = ReturnPair(None, None)
     /\ call.ret = ReturnFalse
     /\ extracted = <<>>
     /\ members[call.member].name = call.name

C3_Witness ==
  /\ InstallDone /\ call.member = 2
  /\ call.name = S_XCONF \o SLASH \o S_FORMULA
  /\ opts["spm_node_type"] = Some("master")
  /\ call.ret = ReturnFalse

\* the directory test_install_file expects: <cache dir>/master/extmods
EXTMODS_MASTER ==
  CACHE_DIR \o <<"/","m","a","s","t","e","r","/","e","x","t","m","o","d","s">>

\* C6: install_file of member "apache/_README" of package and formula
\* "apache", with node role master and a context holding only formula_path,
\* returns "<cache dir>/master/extmods".
C6_TestInstallFile ==
  (/\ InstallDone
   /\ call.package = S_APACHE
   /\ call.name = S_APACHE \o SLASH \o USCORE \o S_README
   /\ formula_def = [k \in {"name"} |-> S_APACHE]
   /\ opts["spm_node_type"] = Some("master")
   /\ call.conn = Some(TestConn)) =>
     call.ret = ReturnBase(EXTMODS_MASTER)

\* the effects of a successful install_file on the given mapping
InstalledAs(base, file) ==
  /\ members[call.member].name = file
  /\ extracted = <<[member |-> call.member, name |-> file, path |-> base]>>
  /\ call.ret = ReturnBase(base)
  /\ \A i \in DOMAIN members : i # call.member =>
       \A j \in DOMAIN extracted : extracted[j].member # i

\* C10 as stated: when the member name differs from the package identifier
\* and the mapping is determined (neither half is None), install_file renames
\* the member to the relative path, extracts exactly that member into the
\* base directory and returns the base directory.
C10_DeterminedInstalls ==
  (/\ InstallDone
   /\ call.name # call.package
   /\ call.mapped.kind = "return"
   /\ call.mapped.base # None
   /\ call.mapped.file # None) =>
     InstalledAs(call.mapped.base[1], call.mapped.file[1])

\* C10 (amended): when the member name differs from the package identifier
\* and the mapping has a non-empty base directory and a non-empty relative
\* path, install_file renames the member to the relative path, extracts
\* exactly that member into the base directory and returns the base directory.
C10_NonEmptyMappingInstalls ==
  (/\ InstallDone
   /\ call.name # call.package
   /\ call.mapped.kind = "return"
   /\ Truthy(call.mapped.base)
   /\ Truthy(call.mapped.file)) =>
     InstalledAs(call.mapped.base[1], call.mapped.file[1])

C10_Witness ==
  /\ InstallDone /\ call.member = 3
  /\ call.name = S_APACHE \o SLASH \o S_PILLAR_SLASH \o S_README
  /\ members[3].name = S_README
  /\ extracted = <<[member |-> 3, name |-> S_README, path |-> DIR_P]>>
  /\ call.ret = ReturnBase(DIR_P)

\* the prefix and the trimmed path of the member install_file was called on
InstallPrefix == TopLevelDir(formula_def) \o SLASH
InstallUnderPrefix == StartsWith(call.name, InstallPrefix)
InstallTrimmed == SubSeq(call.name, Len(InstallPrefix) + 1, Len(call.name))

\* C11: install_file on a member whose name equals the package identifier
\* returns False without touching the filesystem: no directory is created,
\* even when conn is omitted, nothing is extracted, and the member keeps its
\* name.
C11_PackageMemberRefused ==
  [][(call'.op = "install_file" /\ call'.name = call'.package) =>
       /\ call'.ret = ReturnFalse
       /\ dirs' = dirs
       /\ files' = files
       /\ extracted' = <<>>
       /\ members' = members]_vars

C11_Witness ==
  /\ InstallDone /\ call.name = call.package
  /\ call.member = 1
  /\ call.conn = None
  /\ dirs = {}
  /\ call.ret = ReturnFalse

\* C12: when the mapping of a member is undetermined (its path is outside
\* the prefix, it is the manifest, or it is a module file and the node role
\* is invalid), install_file returns False, extracts nothing and leaves the
\* member's name as it was.
C12_UndeterminedRefused ==
  (/\ InstallDone
   /\ call.name # call.package
   /\ \/ ~InstallUnderPrefix
      \/ InstallTrimmed = S_FORMULA
      \/ /\ StartsWith(InstallTrimmed, USCORE)
         /\ ~StartsWith(InstallTrimmed, S_PILLAR_SLASH)
         /\ ~NodeRoleValid) =>
     /\ call.ret = ReturnFalse
     /\ extracted = <<>>
     /\ members[call.member].name = call.name

C12_Witness ==
  /\ InstallDone /\ call.member = 3
  /\ call.name = S_APACHE \o SLASH \o USCORE \o S_README
  /\ opts["spm_node_type"] = Some("syndic")
  /\ call.ret = ReturnFalse
  /\ members[3].name = call.name

(***************************************************************************)
(* Properties of check_existing.                                           *)
(***************************************************************************)
ScanDone == call.op = "check_existing"

\* what map_path gives for member i under the context of the call
ScanMapped(i) == map_path(members[i].name, formula_def, None, CallConn, opts)

ScanResolved(i) == ScanMapped(i).base[1] \o SLASH \o ScanMapped(i).file[1]

\* the sequence of the elements of the set of indices S, in increasing order
RECURSIVE Ascending(_)
Ascending(S) ==
  IF S = {} THEN <<>>
  ELSE LET lo == CHOOSE i \in S : \A j \in S : i <= j
       IN  <<lo>> \o Ascending(S \ {lo})

ResolvedInOrder(S) == [k \in 1..Cardinality(S) |-> ScanResolved(Ascending(S)[k])]

\* members that are no directory, have a determined mapping (neither half is
\* None) and whose resolved path exists
DeterminedExisting ==
  {i \in DOMAIN members :
     /\ ~members[i].isdir
     /\ ScanMapped(i).kind = "return"
     /\ ScanMapped(i).base # None /\ ScanMapped(i).file # None
     /\ path_exists(ScanResolved(i), dirs, fcontent)}

\* the same with a non-empty base directory and a non-empty relative path
NonEmptyExisting ==
  {i \in DOMAIN members :
     /\ ~members[i].isdir
     /\ ScanMapped(i).kind = "return"
     /\ Truthy(ScanMapped(i).base) /\ Truthy(ScanMapped(i).file)
     /\ path_exists(ScanResolved(i), dirs, fcontent)}

\* C13 as stated: check_existing returns, in member order, exactly the
\* resolved paths of the members that are no directories, have a determined
\* mapping and exist, whatever force is, and does not modify the filesystem.
C13_ExistingListed ==
  ScanDone =>
     /\ call.ret.kind = "return" => call.ret.value = ResolvedInOrder(DeterminedExisting)
     /\ dirs = call.dirs0
     /\ fcontent = call.fcontent0

\* C13 (amended): check_existing returns, in member order, exactly the
\* resolved paths of the members that are no directories, whose mapping has
\* a non-empty base directory and a non-empty relative path, and that exist,
\* whatever force is; it changes no file, and the only directories it can
\* create are the configured ones, when conn is omitted.
C13_NonEmptyExistingListed ==
  ScanDone =>
     /\ call.ret.kind = "return" => call.ret.value = ResolvedInOrder(NonEmptyExisting)
     /\ fcontent = call.fcontent0
     /\ call.conn # None => dirs = call.dirs0
     /\ call.dirs0 \subseteq dirs
     /\ dirs \subseteq call.dirs0 \cup ConfiguredDirs

C13_Witness ==
  /\ ScanDone
  /\ opts["force"]
  /\ members[1].name = S_APACHE
  /\ members[3] = Member(S_APACHE \o SLASH \o USCORE \o S_README, FALSE)
  /\ call.conn = Some(init_conn(opts))
  /\ call.ret = ReturnList(<<sep_join(DIR_M, S_README), sep_join(DIR_F, S_README)>>)

(***************************************************************************)
(* Properties of remove_file, hash_file and init, over the calls of a run. *)
(***************************************************************************)
Calls == DOMAIN history

IsRemove(i) == history[i].op = "remove_file"
IsHash(i) == history[i].op = "hash_file"
IsInit(i) == history[i].op = "init"

PathOf(i) == history[i].args.path[1]
FaultOf(i) == history[i].args.fault

Returned(i) == history[i].ret.kind = "return"

\* the path of call i is a regular file / a directory / nothing before the call
WasFile(i) == PathOf(i) \in DOMAIN history[i].fcontent0
WasDir(i) == path_isdir(PathOf(i), history[i].dirs0)
WasAbsent(i) == ~path_exists(PathOf(i), history[i].dirs0, history[i].fcontent0)

ExistsAfter(i) == path_exists(PathOf(i), history[i].dirs1, history[i].fcontent1)

\* the path of call i is nothing once the context of the call is there
\* (init() has run when conn was omitted)
AbsentAtRemove(i) == ~path_exists(PathOf(i), history[i].dirs1, history[i].fcontent0)

\* C14 as stated: remove_file on a path that does not exist raises no error
\* and changes no file; on an existing file it returns and path_exists on the
\* path is False afterwards; a second remove_file on it raises no error.
C14_RemoveIdempotent ==
  /\ \A i \in Calls :
       (IsRemove(i) /\ FaultOf(i) = None /\ WasAbsent(i)) =>
         /\ history[i].ret = ReturnNone
         /\ history[i].fcontent1 = history[i].fcontent0
  /\ \A i \in Calls :
       (IsRemove(i) /\ FaultOf(i) = None /\ WasFile(i)) =>
         /\ history[i].ret = ReturnNone
         /\ ~ExistsAfter(i)
  /\ \A i, j \in Calls :
       (/\ i < j /\ IsRemove(i) /\ IsRemove(j) /\ PathOf(i) = PathOf(j)
        /\ FaultOf(i) = None /\ FaultOf(j) = None /\ Returned(i)) =>
         history[j].ret = ReturnNone

\* C14: remove_file on a path that is neither a file nor, once init() has run
\* for an omitted conn, a directory raises no error and changes no file; on an
\* existing file it returns and path_exists on the path is False afterwards; a
\* second remove_file on the same path raises no error either, unless init()
\* has made the path a directory.
C14_RemoveIdempotentOnFiles ==
  /\ \A i \in Calls :
       (IsRemove(i) /\ FaultOf(i) = None /\ AbsentAtRemove(i)) =>
         /\ history[i].ret = ReturnNone
         /\ history[i].fcontent1 = history[i].fcontent0
  /\ \A i \in Calls :
       (IsRemove(i) /\ FaultOf(i) = None /\ WasFile(i)) =>
         /\ history[i].ret = ReturnNone
         /\ ~ExistsAfter(i)
         /\ history[i].fcontent1 = without_file(history[i].fcontent0, PathOf(i))
  /\ \A i, j \in Calls :
       (/\ i < j /\ IsRemove(i) /\ IsRemove(j) /\ PathOf(i) = PathOf(j)
        /\ FaultOf(i) = None /\ FaultOf(j) = None /\ Returned(i)
        /\ ~path_isdir(PathOf(j), history[j].dirs1)) =>
         history[j].ret = ReturnNone

C14_Witness ==
  /\ Len(history) = 2
  /\ IsRemove(1) /\ IsRemove(2)
  /\ PathOf(1) = FILE_A /\ PathOf(2) = FILE_A
  /\ FaultOf(1) = None /\ FaultOf(2) = None
  /\ WasFile(1) /\ WasAbsent(2)
  /\ history[2].ret = ReturnNone

\* the failure other than "not found" that call i meets, "" when it meets none
FailureOf(i) ==
  IF IsRemove(i)
  THEN IF FaultOf(i) # None THEN FaultOf(i)[1]
       ELSE IF path_isdir(PathOf(i), history[i].dirs1) /\ ~WasFile(i) THEN "EISDIR"
       ELSE ""
  ELSE IF IsHash(i) /\ ~WasDir(i)
  THEN IF FaultOf(i) = Some("EACCES") THEN "EACCES"
       ELSE IF WasFile(i) /\ FaultOf(i) = Some("EIO") THEN "EIO"
       ELSE IF WasFile(i) /\ FaultOf(i) = Some("update") THEN "0"
       ELSE ""
  ELSE ""

\* C15: a failure of remove_file or hash_file other than "not found" reaches
\* the caller as the same error, never as a return value, after one attempt.
C15_FailuresPropagate ==
  \A i \in Calls :
    FailureOf(i) # "" =>
      /\ history[i].ret = Raise("OSError", FailureOf(i))
      /\ history[i].oscalls = 1
      /\ history[i].fcontent1 = history[i].fcontent0
      /\ history[i].hashobjs1 = history[i].hashobjs0

C15_Witness ==
  /\ Len(history) = 2
  /\ IsRemove(1) /\ PathOf(1) = DIR_F /\ FaultOf(1) = None
  /\ history[1].ret = Raise("OSError", "EISDIR")
  /\ IsHash(2) /\ PathOf(2) = FILE_A /\ FaultOf(2) = Some("update")
  /\ history[2].ret = Raise("OSError", "0")

\* C16: hash_file on a directory or on a path that does not exist returns the
\* empty string and feeds nothing to the accumulator.
C16_NothingToHash ==
  \A i \in Calls :
    (IsHash(i) /\ (WasDir(i) \/ (WasAbsent(i) /\ FaultOf(i) # Some("EACCES")))) =>
      /\ history[i].ret = ReturnStr(<<>>)
      /\ history[i].hashobjs1 = history[i].hashobjs0

C16_Witness ==
  /\ Len(history) = 2
  /\ IsHash(1) /\ PathOf(1) = DIR_F /\ WasDir(1)
  /\ history[1].ret = ReturnStr(<<>>)
  /\ IsHash(2) /\ PathOf(2) = FILE_A /\ WasAbsent(2)
  /\ history[2].ret = ReturnStr(<<>>)
  /\ hashobjs = history[1].hashobjs0

\* call i hashed an existing regular file and returned
Hashed(i) == IsHash(i) /\ WasFile(i) /\ ~WasDir(i) /\ Returned(i)

ContentOf(i) == history[i].fcontent0[PathOf(i)]
AccBefore(i) == history[i].hashobjs0[history[i].args.hashobj]

\* C17 as stated: any two hash_file calls on files of equal content with
\* accumulators of the same algorithm return equal, non-empty digests.
C17_EqualContentEqualDigest ==
  /\ \A i \in Calls : Hashed(i) => history[i].ret.value # <<>>
  /\ \A i, j \in Calls :
       (/\ Hashed(i) /\ Hashed(j)
        /\ ContentOf(i) = ContentOf(j)
        /\ AccBefore(i).alg = AccBefore(j).alg) =>
         history[i].ret.value = history[j].ret.value

\* C17: hash_file on an existing regular file returns a non-empty digest, and
\* two calls on files of equal content return equal digests when their
\* accumulators have the same algorithm and were fed the same data before.
C17_SameAccumulatorStateEqualDigest ==
  /\ \A i \in Calls : Hashed(i) => history[i].ret.value # <<>>
  /\ \A i, j \in Calls :
       (/\ Hashed(i) /\ Hashed(j)
        /\ ContentOf(i) = ContentOf(j)
        /\ AccBefore(i) = AccBefore(j)) =>
         history[i].ret.value = history[j].ret.value

C17_Witness ==
  /\ Len(history) = 2
  /\ Hashed(1) /\ Hashed(2)
  /\ PathOf(1) = FILE_A /\ PathOf(2) = FILE_B
  /\ history[1].args.hashobj = 1 /\ history[2].args.hashobj = 2
  /\ ContentOf(1) = ContentOf(2)
  /\ AccBefore(1) = AccBefore(2)
  /\ history[1].ret.value = history[2].ret.value

\* C18: after init each configured directory exists and the context returned
\* maps formula_path, pillar_path, reactor_path and spm_module_path to the
\* configured paths; init only adds missing configured directories, and a
\* later init changes nothing and returns an equal context.
C18_InitCreatesDirs ==
  /\ \A i \in Calls :
       IsInit(i) =>
         /\ Returned(i)
         /\ \A k \in {"formula_path", "pillar_path", "reactor_path", "spm_module_path"} :
              path_exists(opts[k], history[i].dirs1, history[i].fcontent1)
         /\ DOMAIN history[i].ret.value =
              {"formula_path", "pillar_path", "reactor_path", "spm_module_path"}
         /\ \A k \in DOMAIN history[i].ret.value : history[i].ret.value[k] = opts[k]
         /\ history[i].dirs0 \subseteq history[i].dirs1
         /\ history[i].dirs1 \ history[i].dirs0 \subseteq
              {opts[k] : k \in {"formula_path", "pillar_path", "reactor_path",
                                "spm_module_path"}}
         /\ history[i].fcontent1 = history[i].fcontent0
         /\ history[i].hashobjs1 = history[i].hashobjs0
  /\ \A i, j \in Calls :
       (i < j /\ IsInit(i) /\ IsInit(j)) =>
         /\ history[j].dirs1 = history[j].dirs0
         /\ history[j].ret = history[i].ret

C18_Witness ==
  /\ Len(history) = 2
  /\ IsInit(1) /\ IsInit(2)
  /\ history[1].dirs0 = {}
  /\ history[1].dirs1 = {DIR_F, DIR_P, DIR_R, DIR_M}
  /\ dirs = history[1].dirs1

(***************************************************************************)
(* Properties of the repository listing.                                   *)
(***************************************************************************)
\* the entries of the metadata that the filters of a call select
MatchingEntries(pkg, exact_pkg, repo) ==
  UNION {{package_entry(repo_metadata[i], repo_metadata[i].packages[j]) :
            j \in {x \in DOMAIN repo_metadata[i].packages :
                     pkg_selected(pkg, exact_pkg, repo_metadata[i].packages[x].name)}} :
         i \in {x \in DOMAIN repo_metadata :
                  ~Truthy(repo) \/ repo[1] = repo_metadata[x].name}}

IsLocal(e) == StartsWith(e.source, S_FILE_SCHEME)

\* no entry of the name of e in S is newer than e, nor a file:// entry
\* preferred to it
Newest(e, S) ==
  \A m \in S :
    m.name = e.name =>
      \/ e.version > m.version
      \/ /\ e.version = m.version
         /\ \/ e.release > m.release
            \/ e.release = m.release /\ (IsLocal(m) => IsLocal(e))

ListedLatest == call.op = "list_repo_packages" /\ call.latest

\* C19: with latest=True the listing returns one entry per distinct name among
\* the matching entries, and that entry is the newest of its name: highest
\* version, then highest release, then a file:// source preferred.
C19_LatestIsNewest ==
  ListedLatest =>
    /\ call.ret.kind = "return"
    /\ \A k \in DOMAIN call.ret.value :
         /\ call.ret.value[k] \in MatchingEntries(call.pkg, FALSE, call.repo)
         /\ Newest(call.ret.value[k], MatchingEntries(call.pkg, FALSE, call.repo))
    /\ \A k, l \in DOMAIN call.ret.value :
         call.ret.value[k].name = call.ret.value[l].name => k = l
    /\ {call.ret.value[k].name : k \in DOMAIN call.ret.value} =
         {m.name : m \in MatchingEntries(call.pkg, FALSE, call.repo)}

\* C20: repo_info(pkg) returns the record of the latest package named exactly
\* pkg over all repositories, and an empty dict when no repository has one.
C20_RepoInfoLatestExact ==
  call.op = "repo_info" =>
    /\ call.ret.kind = "return"
    /\ IF MatchingEntries(call.pkg, TRUE, None) = {}
       THEN call.ret.value = <<>>
       ELSE /\ Len(call.ret.value) = 1
            /\ call.ret.value[1] \in MatchingEntries(call.pkg, TRUE, None)
            /\ Newest(call.ret.value[1], MatchingEntries(call.pkg, TRUE, None))

(***************************************************************************)
(* Properties of install.                                                  *)
(***************************************************************************)
ModInstallDone == call.op = "install"

\* the packages asked for: the pkgs list, or the name when pkgs is not passed
RequestedSeq == IF call.pkgs.type = "list" THEN call.pkgs.items ELSE <<call.name>>
Requested == {RequestedSeq[k] : k \in DOMAIN RequestedSeq}

\* "<version>-<release>" of p in database db, "" when p is not in it
VersionIn(db, p) ==
  IF p \in DOMAIN db THEN <<Digit(db[p].version), "-", Digit(db[p].release)>> ELSE <<>>

\* C22: what install returns is a dict with one key per requested package,
\* mapped to the version-release installed before the call (old) and after it
\* (new), each "" when the package is not installed then.
C22_InstallReportsVersions ==
  (ModInstallDone /\ call.ret.kind = "return") =>
    /\ DOMAIN call.ret.value = Requested
    /\ \A p \in Requested :
         /\ DOMAIN call.ret.value[p] = {"old", "new"}
         /\ call.ret.value[p].old = VersionIn(call.pkgdb0, p)
         /\ call.ret.value[p].new = VersionIn(pkgdb, p)

C22_Witness ==
  /\ ModInstallDone
  /\ call.pkgs = PkgsList(<<S_FOO, S_BAR>>)
  /\ call.ret.kind = "return"
  /\ call.ret.value[S_FOO] = [old |-> <<"1", "-", "1">>, new |-> <<"1", "-", "2">>]
  /\ call.ret.value[S_BAR] = [old |-> <<>>, new |-> <<>>]

\* the commands of the call after the refresh, if there was one
ClientCmds ==
  IF call.refresh THEN SubSeq(call.cmds, 2, Len(call.cmds)) ELSE call.cmds

CmdsOf(kind) == {k \in DOMAIN ClientCmds : ClientCmds[k].cmd = kind}

RequestedInstalled == {p \in Requested : p \in DOMAIN call.pkgdb0}

\* C24: one install issues its commands in the order list packages, list
\* files of each requested installed package, remove, deletions of leftover
\* files, install of all requested packages, list packages; remove is given
\* only requested packages installed before, each deleted file was reported
\* by list files for one of them and is an existing non-directory, and a
\* failed deletion does not stop the install.
C24_CommandOrder ==
  (ModInstallDone /\ call.ret.kind = "return") =>
    /\ Len(ClientCmds) >= 4
    /\ ClientCmds[1].cmd = "list_packages"
    /\ ClientCmds[Len(ClientCmds)].cmd = "list_packages"
    /\ ClientCmds[Len(ClientCmds) - 1] = Cmd("install", RequestedSeq, TRUE)
    /\ \E r \in DOMAIN ClientCmds :
         /\ CmdsOf("remove") = {r}
         /\ \A k \in DOMAIN ClientCmds :
              /\ (1 < k /\ k < r) => ClientCmds[k].cmd = "list_files"
              /\ (r < k /\ k < Len(ClientCmds) - 1) => ClientCmds[k].cmd = "os_remove"
         /\ {ClientCmds[r].args[k] : k \in DOMAIN ClientCmds[r].args} = RequestedInstalled
         /\ {ClientCmds[k].args[1] : k \in CmdsOf("list_files")} = RequestedInstalled
         /\ \A k \in CmdsOf("os_remove") :
              /\ \E p \in RequestedInstalled : InList(ClientCmds[k].args[1], list_files(p))
              /\ ClientCmds[k].args[1] \in DOMAIN call.fcontent0
              /\ ~path_isdir(ClientCmds[k].args[1], call.dirs0)

C24_Witness ==
  /\ ModInstallDone
  /\ ~call.refresh
  /\ call.pkgs = PkgsList(<<S_FOO, S_BAR>>)
  /\ call.cmds = <<Cmd("list_packages", <<>>, TRUE), Cmd("list_files", <<S_FOO>>, TRUE),
                   Cmd("remove", <<S_FOO>>, TRUE),
                   Cmd("os_remove", <<PkgFile(S_FOO)>>, FALSE),
                   Cmd("install", <<S_FOO, S_BAR>>, TRUE),
                   Cmd("list_packages", <<>>, TRUE)>>
  /\ S_BAR \in DOMAIN pkgdb

(***************************************************************************)
(* Properties of the refresh tag over a run.                               *)
(***************************************************************************)
\* latest call i of the run refreshed the repository metadata
Refreshed(i) ==
  /\ history[i].calls # <<>>
  /\ history[i].calls[1] = SaltCall("spm.refresh_metadata", <<>>)

LatestDone == call.op = "latest"

\* the packages a latest call desires: the distinct names of pkgs, else the
\* packages of the repository fromrepo, else name
Desired ==
  IF call.pkgs.items # <<>>
  THEN IF call.pkgs.type = "list"
       THEN {call.pkgs.items[k] : k \in DOMAIN call.pkgs.items} ELSE {}
  ELSE IF call.pkgs.type = "list" THEN {}
  ELSE IF Truthy(call.fromrepo)
  THEN {m.name : m \in MatchingEntries(None, FALSE, call.fromrepo)}
  ELSE {call.name}

\* the repository information of a package: the entry of its name that
\* spm.list_repo_packages(latest=True) lists
AvailableEntries(p) ==
  {e \in {list_repo_packages(repo_metadata, None, None, TRUE).value[k] :
            k \in DOMAIN list_repo_packages(repo_metadata, None, None, TRUE).value} :
     e.name = p}

Available(p) == CHOOSE e \in AvailableEntries(p) : TRUE

WasInstalled(p) == p \in DOMAIN call.pkgdb0

\* version and release of a compare greater than those of b
Greater(a, b) ==
  a.version > b.version \/ (a.version = b.version /\ a.release > b.release)

SameVersion(a, b) == a.version = b.version /\ a.release = b.release

\* the target set of the call
Targets ==
  {p \in Desired :
     /\ AvailableEntries(p) # {}
     /\ \/ ~WasInstalled(p)
        \/ Greater(Available(p), call.pkgdb0[p])
        \/ call.exact_versions /\ ~SameVersion(Available(p), call.pkgdb0[p])}

\* the desired packages with neither repository nor installed information
Unknown == {p \in Desired : AvailableEntries(p) = {} /\ ~WasInstalled(p)}

\* the lists of packages passed to spm.install in the call
InstallArgs == {call.calls[k].args : k \in {j \in DOMAIN call.calls :
                                               call.calls[j].fun = "spm.install"}}

\* C25: latest passes to spm.install exactly the target set; never an
\* up-to-date package nor, without exact_versions, one whose available version
\* is lower than the installed one; it does not call spm.install when the
\* target set is empty or a desired package has neither repository nor
\* installed information, and then returns result False; after installing it
\* returns result True only if every target's new version is its target
\* version.
C25_InstallsTargetSet ==
  LatestDone =>
    /\ \A args \in InstallArgs :
         /\ {args[i] : i \in DOMAIN args} = Targets
         /\ \A i, j \in DOMAIN args : args[i] = args[j] => i = j
         /\ \A i \in DOMAIN args :
              WasInstalled(args[i]) =>
                /\ ~SameVersion(Available(args[i]), call.pkgdb0[args[i]])
                /\ call.exact_versions
                   \/ ~Greater(call.pkgdb0[args[i]], Available(args[i]))
    /\ (Targets = {} \/ Unknown # {}) => InstallArgs = {}
    /\ Unknown # {} => call.ret.result = Some(FALSE)
    /\ (InstallArgs # {} /\ call.ret.result = Some(TRUE)) =>
         \A p \in Targets :
           /\ p \in DOMAIN call.ret.changes
           /\ call.ret.changes[p].new = version_format(Available(p))

\* two packages are installed, one of them an upgrade, and the result is True
C25_Witness ==
  /\ LatestDone
  /\ InstallArgs # {}
  /\ Targets = {S_FOO, S_BAR}
  /\ WasInstalled(S_FOO)
  /\ call.ret.result = Some(TRUE)

ManagedDone == call.op = "managed"

\* the functions called through __salt__ in the call
Called(fun) == \E k \in DOMAIN call.calls : call.calls[k].fun = fun

\* the definition of the repository before the call, {} when there is none
Existing == IF call.name \in DOMAIN call.repos0 THEN call.repos0[call.name] ELSE <<>>

\* two option values are equal: by truthiness when either is a boolean,
\* otherwise by string form
OptionEqual(a, b) ==
  IF a.type = "bool" \/ b.type = "bool" THEN is_true(a) = is_true(b)
  ELSE py_str(a) = py_str(b)

\* the repository is already as requested
Converged ==
  /\ Existing # <<>>
  /\ \A k \in DOMAIN call.kwargs :
       IF k \in DOMAIN Existing THEN OptionEqual(call.kwargs[k], Existing[k])
       ELSE k = "enabled" /\ is_true(call.kwargs[k])

\* spm.get_repo is loaded and returns
Readable == call.env.has_get_repo /\ call.env.salt_error # "spm.get_repo"

DryRunDone == call.op \in {"latest", "managed", "absent"} /\ call.test

\* the call has found that a change is needed: latest has targets and no
\* unknown package, managed a repository that is not converged, absent a
\* repository that exists
ChangeNeeded ==
  \/ /\ LatestDone
     /\ call.env.salt_error = "none"
     /\ Unknown = {}
     /\ Targets # {}
  \/ ManagedDone /\ Readable /\ ~Converged
  \/ call.op = "absent" /\ Readable /\ Existing # <<>>

\* C23: in test mode latest never calls spm.install, managed never
\* spm.mod_repo, absent never spm.del_repo; when a change is needed the result
\* is None and the changes are empty; the installed packages and the
\* repository definitions are the same after the call as before.
C23_DryRunNoChange ==
  DryRunDone =>
    /\ ~Called("spm.install") /\ ~Called("spm.mod_repo") /\ ~Called("spm.del_repo")
    /\ ChangeNeeded => (call.ret.result = None /\ call.ret.changes = <<>>)
    /\ pkgdb = call.pkgdb0
    /\ repos = call.repos0

\* latest in test mode finds a package to upgrade
C23_Witness ==
  /\ DryRunDone
  /\ LatestDone
  /\ ChangeNeeded
  /\ \E p \in Targets : WasInstalled(p)
  /\ call.ret.result = None

====
